---- MODULE Spec2Model ----
(***************************************************************************)
(* Attendance aggregation and sync engine of the clockwork application     *)
(* (src/index.tsx).  Two specifications share this module:                 *)
(*                                                                         *)
(*   Spec      the App component as a state machine: the cached            *)
(*             projection, the sync status, the isUpdating flag, the       *)
(*             remote sheet and the fetches and writes in flight;          *)
(*   SpecNorm  the log normalizer (the fold of fetchAndProcessData) as a   *)
(*             pure function applied to bounded row sequences.             *)
(***************************************************************************)
EXTENDS Integers, Sequences, FiniteSets, Bags, TLC

VARIABLES
    remote,         \* the rows of the remote sheet (header row first)
    rawLogData,     \* cached logs: (employee, date) -> list of DailyLog
    employees,      \* cached roster (array of names)
    adminPassword,  \* cached admin passphrase
    syncStatus,     \* SyncStatus
    alert,          \* the last notice shown by showAlert ("none" before the first)
    isUpdating,     \* isUpdating.current
    fetches,        \* bag of loadData / backgroundSync calls awaiting the fetch
    writes,         \* bag of handleAction calls awaiting recordToSheet
    mounted,        \* the mount effect has run
    ops,            \* number of handler invocations so far (bounds the model)
    last,           \* history: the name of the step taken last
    nRows,          \* SpecNorm: the row sequence given to the normalizer
    nDone,          \* SpecNorm: the normalizer has been applied
    nOut,           \* SpecNorm: its result
    dLogs,          \* SpecDay: the logs of one (employee, date) group, as pushed
    dMethod,        \* SpecDay: calculationMethod
    dStep,          \* SpecDay: "input", "calculated" or "summarized"
    dCalc,          \* SpecDay: what calculateHoursAndPairs returned
    dSummary,       \* SpecDay: the DailySummary of the group
    reportDate,     \* SpecReport: reportDate (an instant, in minutes)
    reportViewType, \* SpecReport: 'day', 'week' or 'month'
    now,            \* SpecReport: the current moment (an instant, in minutes)
    tzOffset,       \* SpecReport: hours the local time is ahead of UTC
    employeeData,   \* SpecReport: the summary dates of the employee, in map order
    reportData,     \* SpecReport: what the report memo returned
    navCount,       \* SpecReport: number of navigator clicks so far
    posting,        \* SpecRecord: one call of recordToSheet and how far it got
    resolved        \* history: the roster writes that resolved, in order, with their outcomes

appVars == <<remote, rawLogData, employees, adminPassword, syncStatus, alert,
             isUpdating, fetches, writes, mounted, ops, last>>
normVars == <<nRows, nDone, nOut>>
dayVars == <<dLogs, dMethod, dStep, dCalc, dSummary>>
reportVars == <<reportDate, reportViewType, now, tzOffset, employeeData,
                reportData, navCount>>
recordVars == <<posting>>
historyVars == <<resolved>>
vars == <<remote, rawLogData, employees, adminPassword, syncStatus, alert,
          isUpdating, fetches, writes, mounted, ops, last, nRows, nDone, nOut,
          dLogs, dMethod, dStep, dCalc, dSummary,
          reportDate, reportViewType, now, tzOffset, employeeData,
          reportData, navCount, posting, resolved>>

----------------------------------------------------------------------------
(* Bounds *)

MaxOps == 2
MaxNormRows == 3
MaxDayLogs == 4
MaxNav == 3

----------------------------------------------------------------------------
(* Types of src/index.tsx *)

Connecting == "connecting"
Connected == "connected"
Syncing == "syncing"
Error == "error"
Offline == "offline"
SyncStatus == {Connecting, Connected, Syncing, Error, Offline}

DefaultPassword == "1234"

\* null, where a timestamp text may stand
Null == "null"

\* No call of recordToSheet has been made
NoPosting == [stage |-> "none"]
Sentinel == "SYSTEM"

\* A row of the sheet: an array of cells, or a value that is no array.
\* Cells are [employee, action, timestamp, date, time, source]; the last two
\* are never read by the normalizer and are left out.
Row(cells) == [arr |-> TRUE, cells |-> cells]
NotArrayRow == [arr |-> FALSE, cells |-> <<>>]
HeaderRow == Row(<<"employee", "action", "timestamp", "date">>)

\* Destructuring [employee, action, timestamp, date] = row: a missing cell is
\* undefined, which every test of the normalizer treats like the empty string.
Cell(row, i) == IF i <= Len(row.cells) THEN row.cells[i] ELSE ""

\* new Date(timestamp).getTime(): the instant of a timestamp text; NaN for a
\* text that is no date.  "T1" and "T1b" are two spellings of one instant.
NaN == -1
ParseTime(ts) ==
    CASE ts = "T0" -> 0
      [] ts = "T1" -> 1
      [] ts = "T1b" -> 1
      [] ts = "T2" -> 2
      [] ts = "T3" -> 3
      [] OTHER -> NaN

\* a.localeCompare(b, 'he') < 0, by collation rank; lower case sorts with its
\* upper case letter and before it, unlike code unit order.
LocaleRank(name) ==
    CASE name = "A" -> 2
      [] name = "b" -> 3
      [] name = "B" -> 4
      [] name = "SYSTEM" -> 5
      [] OTHER -> 1
LocaleLess(a, b) == LocaleRank(a) < LocaleRank(b)

\* Array.prototype.sort with a localeCompare comparator (stable insertion).
RECURSIVE InsertByLocale(_, _)
InsertByLocale(name, sorted) ==
    IF sorted = <<>> THEN <<name>>
    ELSE IF LocaleLess(name, Head(sorted)) THEN <<name>> \o sorted
    ELSE <<Head(sorted)>> \o InsertByLocale(name, Tail(sorted))

RECURSIVE SortLocale(_)
SortLocale(names) ==
    IF names = <<>> THEN <<>>
    ELSE InsertByLocale(names[Len(names)], SortLocale(SubSeq(names, 1, Len(names) - 1)))

Range(s) == {s[i] : i \in 1..Len(s)}

\* names.filter(e => !drop.has(e)), keeping the order of names
RECURSIVE Without(_, _)
Without(names, drop) ==
    IF names = <<>> THEN <<>>
    ELSE (IF Head(names) \in drop THEN <<>> ELSE <<Head(names)>>)
         \o Without(Tail(names), drop)

----------------------------------------------------------------------------
(* The log normalizer: the fold of fetchAndProcessData over data.values *)

EmptyLogData == [k \in {} |-> <<>>]

\* Set.prototype.add on a Set kept in insertion order
SetAdd(s, x) == IF x \in Range(s) THEN s ELSE Append(s, x)

\* rawLogData.get(employee).get(date).push({action, timestamp}), creating
\* the maps and the list when missing
PushLog(data, employee, date, log) ==
    LET k == <<employee, date>> IN
    IF k \in DOMAIN data
    THEN [data EXCEPT ![k] = Append(@, log)]
    ELSE [x \in DOMAIN data \cup {k} |-> IF x = k THEN <<log>> ELSE data[x]]

NormStart ==
    [employeeSet |-> <<>>, removedEmployeeSet |-> {},
     adminPassword |-> DefaultPassword, rawLogData |-> EmptyLogData]

\* Mutant: a re-added name stays in the removed set
OnEmployeeAddedKeepRemoved(st, employee) ==
    [st EXCEPT !.employeeSet = SetAdd(@, employee)]

\* case 'employee_added': roster-add, and the name is no longer removed
OnEmployeeAdded(st, employee) ==
    [st EXCEPT !.employeeSet = SetAdd(@, employee),
               !.removedEmployeeSet = @ \ {employee}]

\* case 'employee_removed'
OnEmployeeRemoved(st, employee) ==
    [st EXCEPT !.removedEmployeeSet = @ \cup {employee}]

\* Mutant: attendance of a removed employee puts the name back
OnAttendanceReactivates(st, employee, action, timestamp, date) ==
    [st EXCEPT !.employeeSet = SetAdd(@, employee),
               !.removedEmployeeSet = @ \ {employee},
               !.rawLogData = PushLog(@, employee, date,
                                  [action |-> action, timestamp |-> timestamp])]

\* case 'checkin' / 'checkout', the row being accepted
OnAttendance(st, employee, action, timestamp, date) ==
    [st EXCEPT !.employeeSet = SetAdd(@, employee),
               !.rawLogData = PushLog(@, employee, date,
                                  [action |-> action, timestamp |-> timestamp])]

\* Mutant: the first passphrase change wins
OnAdminPasswordChangeFirstWins(st, employee) ==
    IF st.adminPassword = DefaultPassword THEN [st EXCEPT !.adminPassword = employee]
    ELSE st

\* case 'admin_password_change': the actor field carries the new passphrase
OnAdminPasswordChange(st, employee) ==
    [st EXCEPT !.adminPassword = employee]

\* default: an action of unknown kind still registers its actor
OnOtherAction(st, employee) ==
    [st EXCEPT !.employeeSet = SetAdd(@, employee)]

\* Mutant: a row without an action field goes on to the switch
RowSkippedByShapeOnly(row) == ~row.arr \/ Len(row.cells) = 0

\* The two `continue` tests at the top of the loop body: the row is no
\* array or is empty (line 88), or it has no action field (line 92)
RowSkipped(row) == ~row.arr \/ Len(row.cells) = 0 \/ Cell(row, 2) = ""

\* Mutant: the timestamp is not parsed before the row is accepted
AttendanceAcceptedUnparsed(employee, timestamp, date) ==
    employee # "" /\ timestamp # "" /\ date # ""

\* case 'checkin' / 'checkout': the tests of lines 114 and 117 both pass
AttendanceAccepted(employee, timestamp, date) ==
    /\ employee # "" /\ timestamp # "" /\ date # ""
    /\ ParseTime(timestamp) # NaN

\* One pass of the loop body over rows[i]
ProcessRow(st, row) ==
    LET employee == Cell(row, 1)
        action == Cell(row, 2)
        timestamp == Cell(row, 3)
        date == Cell(row, 4)
    IN
    IF RowSkipped(row) THEN st
    ELSE CASE action = "employee_added" ->
                IF employee # "" THEN OnEmployeeAdded(st, employee) ELSE st
           [] action = "employee_removed" ->
                IF employee # "" THEN OnEmployeeRemoved(st, employee) ELSE st
           [] action = "admin_password_change" ->
                IF employee # "" THEN OnAdminPasswordChange(st, employee) ELSE st
           [] action \in {"checkin", "checkout"} ->
                IF AttendanceAccepted(employee, timestamp, date)
                THEN OnAttendance(st, employee, action, timestamp, date)
                ELSE st
           [] OTHER ->
                IF employee # "" THEN OnOtherAction(st, employee) ELSE st

\* for (let i = 1; i < rows.length; i++): the row at index 0 is never read
RECURSIVE NormLoop(_, _, _)
NormLoop(rows, i, st) ==
    IF i > Len(rows) THEN st
    ELSE NormLoop(rows, i + 1, ProcessRow(st, rows[i]))

\* logs.sort((a, b) => getTime(a) - getTime(b)): stable, by parsed instant
RECURSIVE InsertByTime(_, _)
InsertByTime(log, sorted) ==
    IF sorted = <<>> THEN <<log>>
    ELSE IF ParseTime(log.timestamp) < ParseTime(Head(sorted).timestamp)
         THEN <<log>> \o sorted
         ELSE <<Head(sorted)>> \o InsertByTime(log, Tail(sorted))

\* Mutant: the groups are left in row order
SortLogsOmitted(logs) == logs

RECURSIVE SortLogs(_)
SortLogs(logs) ==
    IF logs = <<>> THEN <<>>
    ELSE InsertByTime(logs[Len(logs)], SortLogs(SubSeq(logs, 1, Len(logs) - 1)))

\* Array.from(employeeSet).filter(not removed, not 'SYSTEM').sort(localeCompare)
FinalEmployees(st) ==
    SortLocale(Without(st.employeeSet, st.removedEmployeeSet \cup {Sentinel}))

\* What fetchAndProcessData returns for data.values = rows
Normalize(rows) ==
    LET st == NormLoop(rows, 2, NormStart) IN
    [rawLogData |-> [k \in DOMAIN st.rawLogData |-> SortLogs(st.rawLogData[k])],
     employees |-> FinalEmployees(st),
     adminPassword |-> st.adminPassword]

\* Mutant: the accumulators outlive the call and start from the last result
AccumulatorsOfCallKept(previous) ==
    [employeeSet |-> previous.employees, removedEmployeeSet |-> {},
     adminPassword |-> previous.adminPassword, rawLogData |-> previous.rawLogData]

\* Lines 80-83: every call creates its accumulators anew, whatever an
\* earlier call returned
AccumulatorsOfCall(previous) == NormStart

\* What a call of fetchAndProcessData returns for data.values = rows when an
\* earlier call has returned previous
NormalizeAfter(previous, rows) ==
    LET st == NormLoop(rows, 2, AccumulatorsOfCall(previous)) IN
    [rawLogData |-> [k \in DOMAIN st.rawLogData |-> SortLogs(st.rawLogData[k])],
     employees |-> FinalEmployees(st),
     adminPassword |-> st.adminPassword]

----------------------------------------------------------------------------
(* Inputs of the handlers *)

\* Date.prototype.toISOString of an instant: the canonical spelling
ToISOString(at) ==
    CASE at = 0 -> "T0"
      [] at = 1 -> "T1"
      [] at = 2 -> "T2"
      [] OTHER -> "T3"

\* toISOString().split('T')[0]: instants 0 and 1 fall on one day, 2 and 3 on the next
IsoDate(at) == IF at <= 1 THEN "D1" ELSE "D2"

\* String.prototype.trim
Trim(text) ==
    CASE text = " A " -> "A"
      [] text = "  " -> ""
      [] OTHER -> text

\* String.prototype.length of the passphrases typed in
StrLen(text) ==
    CASE text = "" -> 0
      [] text = "123" -> 3
      [] OTHER -> 4

NameInputs == {"  ", " A ", "b", "SYSTEM"}
Actors == {"A"}
Instants == {2}
PasswordInputs == {"123", "9999"}

\* What the sheet may hold when the application starts
InitialSheets ==
    { <<HeaderRow>>,
      <<HeaderRow, Row(<<"B", "employee_added", "T0", "D1">>),
                   Row(<<"A", "checkin", "T1", "D1">>)>> }

\* showAlert(message, type): the notices, by type
ErrorNotices == {"sync_error", "record_failed", "enter_name", "name_exists",
                 "add_failed", "choose_employee", "remove_failed", "password_short",
                 "processing_error"}
SuccessNotices == {"added", "removed", "recorded", "password_changed", "cancelled"}

----------------------------------------------------------------------------
(* The App component *)

\* The App component as constructed (the useState initial values), before
\* its mount effect; the normalizer variables of SpecNorm are idle
Init ==
    /\ remote \in InitialSheets
    /\ rawLogData = EmptyLogData
    /\ employees = <<>>
    /\ adminPassword = DefaultPassword
    /\ syncStatus = Connecting
    /\ alert = "none"
    /\ isUpdating = FALSE
    /\ fetches = EmptyBag
    /\ writes = EmptyBag
    /\ mounted = FALSE
    /\ ops = 0
    /\ last = "construct"
    /\ nRows = <<>>
    /\ nDone = FALSE
    /\ nOut = Normalize(<<>>)
    /\ dLogs = <<>>
    /\ dMethod = "firstLast"
    /\ dStep = "input"
    /\ dCalc = [totalHours |-> 0, pairs |-> <<>>]
    /\ dSummary = [date |-> "", firstIn |-> Null, lastOut |-> Null,
                   totalHours |-> 0, shiftPairs |-> <<>>, logs |-> <<>>]
    /\ reportDate = 0
    /\ reportViewType = "month"
    /\ now = 0
    /\ tzOffset = 0
    /\ employeeData = <<>>
    /\ reportData = <<>>
    /\ navCount = 0
    /\ posting = NoPosting
    /\ resolved = <<>>

One(t) == SetToBag({t})

\* A call of loadData or backgroundSync suspended at `await fetch(url)`;
\* sent is the number of rows the sheet held when the request left
FetchTask(kind) == [kind |-> kind, sent |-> Len(remote)]

\* A call of handleAction suspended at `await recordToSheet(...)`, with the
\* handler that awaits it and that handler's originalEmployees; pos is the
\* index at which the sheet has appended the row (0 while it has not)
WriteTask(caller, employee, action, at, orig) ==
    [caller |-> caller, pos |-> 0, orig |-> orig,
     row |-> Row(<<employee, action, ToISOString(at), IsoDate(at)>>)]

\* Mutant: backgroundSync without its guard
SyncSkippedNever == FALSE

\* backgroundSync, line 263: if (isUpdating.current) return;
SyncSkipped == isUpdating

\* backgroundSync up to its await, applied to the status and the fetches in
\* flight that the caller has reached
SyncStatusAfterSync(status) == IF SyncSkipped THEN status ELSE Syncing
FetchesAfterSync(inFlight) ==
    IF SyncSkipped THEN inFlight ELSE inFlight (+) One(FetchTask("bg"))

\* Room for one more handler invocation within the bound of the model
CanInvoke == mounted /\ ops < MaxOps

\* The mount effect: loadData() up to its await (the interval timers it
\* starts are the BackgroundSync action)
Mount ==
    /\ ~mounted
    /\ mounted' = TRUE
    /\ syncStatus' = Connecting
    /\ fetches' = fetches (+) One(FetchTask("load"))
    /\ UNCHANGED <<remote, rawLogData, employees, adminPassword, alert,
                   isUpdating, writes, ops>>
    /\ last' = "Mount"
    /\ UNCHANGED <<normVars, dayVars, reportVars, recordVars, historyVars>>

\* backgroundSync() invoked by the sync interval or the manual sync button
BackgroundSync ==
    /\ CanInvoke
    /\ ops' = ops + 1
    /\ syncStatus' = SyncStatusAfterSync(syncStatus)
    /\ fetches' = FetchesAfterSync(fetches)
    /\ UNCHANGED <<remote, rawLogData, employees, adminPassword, alert,
                   isUpdating, writes, mounted>>
    /\ last' = "BackgroundSync"
    /\ UNCHANGED <<normVars, dayVars, reportVars, recordVars, historyVars>>

\* The rows a fetch can return: the sheet as it was at some moment between
\* the request and the answer.  The sheet is append-only, so these are its
\* prefixes from the length at the request up to the present length.
Snapshots(t) == {SubSeq(remote, 1, n) : n \in t.sent..Len(remote)}

\* Mutant: the fetched roster is merged into the cached one
RefreshedEmployeesMerged(rows) ==
    SortLocale(employees \o Without(Normalize(rows).employees, Range(employees)))

\* The projection a completed fetch installs, from the rows it fetched
RefreshedLogData(rows) == Normalize(rows).rawLogData
RefreshedEmployees(rows) == Normalize(rows).employees
RefreshedPassword(rows) == Normalize(rows).adminPassword

\* Mutant: the catch block leaves the status as it was
StatusAfterFetchStuck(ok) == IF ok THEN Connected ELSE syncStatus

\* The status a refresh ends in
StatusAfterFetch(ok) == IF ok THEN Connected ELSE Error

\* The notice after a failed refresh: loadData shows one, backgroundSync none
NoticeAfterFetchError(t) == IF t.kind = "load" THEN "sync_error" ELSE alert

\* loadData / backgroundSync after the await, the fetch having returned rows
CompleteFetch(t, rows) ==
    /\ t \in BagToSet(fetches)
    /\ rows \in Snapshots(t)
    /\ fetches' = fetches (-) One(t)
    /\ rawLogData' = RefreshedLogData(rows)
    /\ employees' = RefreshedEmployees(rows)
    /\ adminPassword' = RefreshedPassword(rows)
    /\ syncStatus' = StatusAfterFetch(TRUE)
    /\ UNCHANGED <<remote, alert, isUpdating, writes, mounted, ops>>
    /\ last' = "CompleteFetch"
    /\ UNCHANGED <<normVars, dayVars, reportVars, recordVars, historyVars>>

\* Mutant: the catch block resets the cached projection
FailFetchClearsCache(t) ==
    /\ t \in BagToSet(fetches)
    /\ fetches' = fetches (-) One(t)
    /\ syncStatus' = Error
    /\ alert' = IF t.kind = "load" THEN "sync_error" ELSE alert
    /\ rawLogData' = EmptyLogData
    /\ employees' = <<>>
    /\ adminPassword' = DefaultPassword
    /\ UNCHANGED <<remote, isUpdating, writes, mounted, ops>>
    /\ last' = "FailFetch"
    /\ UNCHANGED <<normVars, dayVars, reportVars, recordVars, historyVars>>

\* loadData / backgroundSync after the await, the fetch having failed
\* (transport error or non-200 response): the catch block
FailFetch(t) ==
    /\ t \in BagToSet(fetches)
    /\ fetches' = fetches (-) One(t)
    /\ syncStatus' = StatusAfterFetch(FALSE)
    /\ alert' = NoticeAfterFetchError(t)
    /\ UNCHANGED <<remote, rawLogData, employees, adminPassword, isUpdating,
                   writes, mounted, ops>>
    /\ last' = "FailFetch"
    /\ UNCHANGED <<normVars, dayVars, reportVars, recordVars, historyVars>>

\* Mutant: handleAction announces the write as a new connection
StatusOnWriteConnecting == Connecting

\* handleAction up to its await: setSyncStatus(Syncing), then recordToSheet
StatusOnWrite == Syncing

\* Mutant: the new name is appended and the list is not sorted again
AddedRosterUnsorted(roster, name) == Append(roster, name)

\* The roster handleAddEmployee applies: [...employees, trimmedName].sort(...)
AddedRoster(roster, name) == SortLocale(Append(roster, name))

\* The roster handleRemoveEmployee applies: employees.filter(e => e !== name)
RemovedRoster(roster, name) == Without(roster, {name})

\* Mutant: handleAddEmployee without the test for a name already listed
HandleAddEmployeeUnchecked(newEmployeeName, at) ==
    LET trimmedName == Trim(newEmployeeName) IN
    /\ CanInvoke
    /\ ops' = ops + 1
    /\ IF trimmedName = ""
       THEN /\ alert' = "enter_name"
            /\ UNCHANGED <<employees, isUpdating, syncStatus, writes>>
       ELSE /\ employees' = AddedRoster(employees, trimmedName)
            /\ alert' = "added"
            /\ isUpdating' = TRUE
            /\ syncStatus' = StatusOnWrite
            /\ writes' = writes (+) One(WriteTask("add", trimmedName,
                                         "employee_added", at, employees))
    /\ UNCHANGED <<remote, rawLogData, adminPassword, fetches, mounted>>
    /\ last' = "HandleAddEmployee"
    /\ UNCHANGED <<normVars, dayVars, reportVars, recordVars, historyVars>>

HandleAddEmployee(newEmployeeName, at) ==
    LET trimmedName == Trim(newEmployeeName) IN
    /\ CanInvoke
    /\ ops' = ops + 1
    /\ IF trimmedName = ""
       THEN /\ alert' = "enter_name"
            /\ UNCHANGED <<employees, isUpdating, syncStatus, writes>>
       ELSE IF trimmedName \in Range(employees)
       THEN /\ alert' = "name_exists"
            /\ UNCHANGED <<employees, isUpdating, syncStatus, writes>>
       ELSE /\ employees' = AddedRoster(employees, trimmedName)
            /\ alert' = "added"
            /\ isUpdating' = TRUE
            /\ syncStatus' = StatusOnWrite
            /\ writes' = writes (+) One(WriteTask("add", trimmedName,
                                         "employee_added", at, employees))
    /\ UNCHANGED <<remote, rawLogData, adminPassword, fetches, mounted>>
    /\ last' = "HandleAddEmployee"
    /\ UNCHANGED <<normVars, dayVars, reportVars, recordVars, historyVars>>

HandleRemoveEmployee(removeEmployeeSelect, at) ==
    /\ CanInvoke
    /\ ops' = ops + 1
    /\ IF removeEmployeeSelect = ""
       THEN /\ alert' = "choose_employee"
            /\ UNCHANGED <<employees, isUpdating, syncStatus, writes>>
       ELSE /\ employees' = RemovedRoster(employees, removeEmployeeSelect)
            /\ alert' = "removed"
            /\ isUpdating' = TRUE
            /\ syncStatus' = StatusOnWrite
            /\ writes' = writes (+) One(WriteTask("remove", removeEmployeeSelect,
                                         "employee_removed", at, employees))
    /\ UNCHANGED <<remote, rawLogData, adminPassword, fetches, mounted>>
    /\ last' = "HandleRemoveEmployee"
    /\ UNCHANGED <<normVars, dayVars, reportVars, recordVars, historyVars>>

\* handleCheckIn / handleCheckOut of the signed-in employee
HandleCheckInOut(action, name, at) ==
    /\ CanInvoke
    /\ ops' = ops + 1
    /\ syncStatus' = StatusOnWrite
    /\ writes' = writes (+) One(WriteTask("plain", name, action, at, <<>>))
    /\ UNCHANGED <<remote, rawLogData, employees, adminPassword, alert,
                   isUpdating, fetches, mounted>>
    /\ last' = "HandleCheckInOut"
    /\ UNCHANGED <<normVars, dayVars, reportVars, recordVars, historyVars>>

\* handleQuickAction (and handleCancelShift, which has the same shape: a
\* write followed by backgroundSync when it succeeded)
HandleQuickAction(action, name, at) ==
    /\ CanInvoke
    /\ ops' = ops + 1
    /\ syncStatus' = StatusOnWrite
    /\ writes' = writes (+) One(WriteTask("quick", name, action, at, <<>>))
    /\ UNCHANGED <<remote, rawLogData, employees, adminPassword, alert,
                   isUpdating, fetches, mounted>>
    /\ last' = "HandleQuickAction"
    /\ UNCHANGED <<normVars, dayVars, reportVars, recordVars, historyVars>>

HandleChangeAdminPassword(newAdminPassword, at) ==
    /\ CanInvoke
    /\ ops' = ops + 1
    /\ IF newAdminPassword = "" \/ StrLen(newAdminPassword) < 4
       THEN /\ alert' = "password_short"
            /\ UNCHANGED <<syncStatus, writes>>
       ELSE /\ alert' = alert
            /\ syncStatus' = StatusOnWrite
            /\ writes' = writes (+) One(WriteTask("password", newAdminPassword,
                                         "admin_password_change", at, <<>>))
    /\ UNCHANGED <<remote, rawLogData, employees, adminPassword, isUpdating,
                   fetches, mounted>>
    /\ last' = "HandleChangeAdminPassword"
    /\ UNCHANGED <<normVars, dayVars, reportVars, recordVars, historyVars>>

\* The script behind SCRIPT_URL appends the row of a write to the sheet
AbsorbWrite(t) ==
    /\ t \in BagToSet(writes)
    /\ t.pos = 0
    /\ remote' = Append(remote, t.row)
    /\ writes' = (writes (-) One(t)) (+) One([t EXCEPT !.pos = Len(remote) + 1])
    /\ UNCHANGED <<rawLogData, employees, adminPassword, syncStatus, alert,
                   isUpdating, fetches, mounted, ops>>
    /\ last' = "AbsorbWrite"
    /\ UNCHANGED <<normVars, dayVars, reportVars, recordVars, historyVars>>

\* Mutant: the outcome of the write is ignored
StatusAfterWriteAlwaysConnected(success) == Connected

\* handleAction after the await: the status the write ends in
StatusAfterWrite(success) == IF success THEN Connected ELSE Error

\* Mutant: a failed roster write leaves the optimistic roster in place
RosterAfterWriteNoRollback(t, success) == employees

\* The roster after the write of a roster mutation resolved: untouched on
\* success, setEmployees(originalEmployees) on failure
RosterAfterWrite(t, success) ==
    IF t.caller \in {"add", "remove"} /\ ~success THEN t.orig ELSE employees

\* The notice after the write resolved (the last showAlert of the handlers)
NoticeAfterWrite(t, success) ==
    CASE t.caller = "add" -> IF success THEN alert ELSE "add_failed"
      [] t.caller = "remove" -> IF success THEN alert ELSE "remove_failed"
      [] t.caller = "password" -> IF success THEN "password_changed" ELSE "record_failed"
      [] t.caller = "cancel" -> IF success THEN "cancelled" ELSE "record_failed"
      [] OTHER -> IF success THEN "recorded" ELSE "record_failed"

\* Mutant: the roster handlers without their finally block
UpdatingAfterWriteKept(t) == isUpdating

\* The flag after the write resolved: the finally block of the roster handlers
UpdatingAfterWrite(t) == IF t.caller \in {"add", "remove"} THEN FALSE ELSE isUpdating

\* History: the write of a roster mutation or of a cancellation resolved;
\* pos is the index of its row in the sheet (0 when it was not appended),
\* overlapped tells whether the write of another roster mutation was in
\* flight at that moment
ResolvedAfterWrite(t, success) ==
    IF t.caller \in {"add", "remove", "cancel"}
    THEN Append(resolved,
                [caller |-> t.caller, name |-> t.row.cells[1], success |-> success,
                 at |-> ParseTime(t.row.cells[3]), pos |-> t.pos,
                 overlapped |-> \E u \in BagToSet(writes (-) One(t)) :
                                   u.caller \in {"add", "remove"}])
    ELSE resolved

\* recordToSheet resolves and handleAction continues after the await, then
\* the handler that awaited it.  recordToSheet returns true only when the
\* script answered {ok: true}, which it does only after appending the row;
\* it returns false when the request failed, the script refused, or the
\* answer was lost after the row was appended.
ResolveWrite(t, success) ==
    /\ t \in BagToSet(writes)
    /\ success => t.pos # 0
    /\ writes' = writes (-) One(t)
    /\ employees' = RosterAfterWrite(t, success)
    /\ alert' = NoticeAfterWrite(t, success)
    /\ isUpdating' = UpdatingAfterWrite(t)
    /\ IF t.caller \in {"quick", "cancel"} /\ success
       THEN /\ syncStatus' = SyncStatusAfterSync(StatusAfterWrite(success))
            /\ fetches' = FetchesAfterSync(fetches)
       ELSE /\ syncStatus' = StatusAfterWrite(success)
            /\ fetches' = fetches
    /\ UNCHANGED <<remote, rawLogData, adminPassword, mounted, ops>>
    /\ last' = "ResolveWrite"
    /\ resolved' = ResolvedAfterWrite(t, success)
    /\ UNCHANGED <<normVars, dayVars, reportVars, recordVars>>

\* The names the remove select offers: the roster ('' while it is empty)
RemoveChoices == IF employees = <<>> THEN {""} ELSE Range(employees)

Next ==
    \/ Mount
    \/ BackgroundSync
    \/ \E t \in BagToSet(fetches) : \E rows \in Snapshots(t) : CompleteFetch(t, rows)
    \/ \E t \in BagToSet(fetches) : FailFetch(t)
    \/ \E name \in NameInputs, at \in Instants : HandleAddEmployee(name, at)
    \/ \E name \in RemoveChoices, at \in Instants : HandleRemoveEmployee(name, at)
    \/ \E action \in {"checkin", "checkout"}, name \in Actors, at \in Instants :
          HandleCheckInOut(action, name, at)
    \/ \E action \in {"checkin", "checkout"}, name \in Actors, at \in Instants :
          HandleQuickAction(action, name, at)
    \/ \E pw \in PasswordInputs, at \in Instants : HandleChangeAdminPassword(pw, at)
    \/ \E t \in BagToSet(writes) : AbsorbWrite(t)
    \/ \E t \in BagToSet(writes), success \in BOOLEAN : ResolveWrite(t, success)

Spec == Init /\ [][Next]_vars

----------------------------------------------------------------------------
(* Claims about the App component, checked under Spec *)

RosterWrites == {w \in BagToSet(writes) : w.caller \in {"add", "remove"}}
Grew(before, after) == BagCardinality(after) > BagCardinality(before)

\* The sequence lists its elements once each, in locale order
IsLocaleSorted(names) ==
    \A i, j \in 1..Len(names) : i < j => LocaleLess(names[i], names[j])

\* C1: backgroundSync invoked while isUpdating is set (by the timer, the
\* manual button, or at the end of a quick action) issues no fetch and leaves
\* the cached projection and the sync status as they are (for a quick action:
\* as handleAction left it); and no fetch is ever issued while the flag is
\* set, so nothing runs later on behalf of the skipped refresh.
C1_SkippedSyncChangesNothing ==
    /\ [][BackgroundSync /\ isUpdating
            => UNCHANGED <<rawLogData, employees, adminPassword, syncStatus,
                           fetches, writes, isUpdating, alert, remote>>]_vars
    /\ [][\A t \in BagToSet(writes) :
            ResolveWrite(t, TRUE) /\ t.caller = "quick" /\ isUpdating
                => /\ UNCHANGED <<rawLogData, employees, adminPassword, fetches>>
                   /\ syncStatus' = Connected]_vars
    /\ [][Grew(fetches, fetches') => ~isUpdating]_vars

\* C1 witness: backgroundSync has just been invoked while a roster write was
\* in flight.
C1_Witness ==
    /\ last = "BackgroundSync"
    /\ isUpdating
    /\ RosterWrites # {}
    /\ syncStatus = Syncing

\* C2 (the claim as stated): a backgroundSync whose fetch completes while a
\* roster write is in flight has read the sheet after it absorbed that write,
\* so that the roster it installs is not older than the optimistic one.
C2_NoStaleOverwrite ==
    [][\A t \in BagToSet(fetches) : \A rows \in Snapshots(t) :
          CompleteFetch(t, rows) /\ t.kind = "bg"
              => \A w \in RosterWrites : w.pos # 0 /\ w.pos <= Len(rows)]_vars

\* C3: when the write of a roster mutation fails, the roster becomes the
\* array the handler copied before the mutation, which is the roster as it was
\* when the handler was invoked, and the notice shown is an error notice.
C3_RollbackRestoresRoster ==
    /\ [][\A t \in BagToSet(writes) :
            ResolveWrite(t, FALSE) /\ t.caller \in {"add", "remove"}
                => employees' = t.orig /\ alert' \in ErrorNotices]_vars
    /\ [][Grew(writes, writes')
            => \E w \in BagToSet(writes') :
                  /\ writes' = writes (+) One(w)
                  /\ w.caller \in {"add", "remove"} => w.orig = employees]_vars

\* C3 witness: an add of "b" to the roster <<A, B>> failed and the roster is
\* <<A, B>> again.
C3_Witness ==
    /\ last = "ResolveWrite"
    /\ alert = "add_failed"
    /\ employees = <<"A", "B">>

C6_RefreshEndsConnectedOrError ==
    /\ [][Mount => syncStatus' = Connecting /\ Grew(fetches, fetches')]_vars
    /\ [][BackgroundSync /\ ~isUpdating
            => syncStatus' = Syncing /\ Grew(fetches, fetches')]_vars
    /\ [][/\ last' = "CompleteFetch" => syncStatus' = Connected
          /\ last' = "FailFetch" => syncStatus' = Error]_vars
    /\ [](mounted /\ fetches = EmptyBag /\ writes = EmptyBag
            => syncStatus \in {Connected, Error})

\* C6 witness: a backgroundSync that was not skipped has ended in Error with
\* nothing left in flight.
C6_Witness ==
    /\ last = "FailFetch"
    /\ ops > 0
    /\ fetches = EmptyBag
    /\ writes = EmptyBag
    /\ syncStatus = Error
    /\ alert = "none"

\* The sheet as it was when it held n rows
SheetPrefix(n) == SubSeq(remote, 1, n)

\* C7: right after a successful refresh the cached logs, roster and
\* passphrase are, all three, the fold of one and the same state of the sheet,
\* whatever the cache held before.
C7_RefreshReplacesWholesale ==
    last = "CompleteFetch" =>
        \E n \in 1..Len(remote) :
            /\ rawLogData = Normalize(SheetPrefix(n)).rawLogData
            /\ employees = Normalize(SheetPrefix(n)).employees
            /\ adminPassword = Normalize(SheetPrefix(n)).adminPassword

\* C7 witness: a refresh has completed over a cache whose roster held only
\* the optimistic name "b" of a write still in flight; the roster, the logs
\* and the passphrase are the sheet's, and "b" is not merged in.
C7_Witness ==
    /\ last = "CompleteFetch"
    /\ \E w \in RosterWrites : w.caller = "add" /\ Cell(w.row, 1) = "b"
    /\ employees = <<"A", "B">>
    /\ rawLogData # EmptyLogData

\* C8: a refresh whose fetch fails leaves the cached logs, roster and
\* passphrase as they were, sets the status to Error, and ends: the call is
\* gone from the fetches in flight and nothing else is disturbed.
C8_FailedRefreshKeepsCache ==
    [][\A t \in BagToSet(fetches) :
          FailFetch(t)
              => /\ UNCHANGED <<rawLogData, employees, adminPassword>>
                 /\ syncStatus' = Error
                 /\ fetches' = fetches (-) One(t)
                 /\ UNCHANGED <<writes, isUpdating, remote>>]_vars

\* C8 witness: a refresh failed when the cache held a roster and logs, and
\* they are still there.
C8_Witness ==
    /\ last = "FailFetch"
    /\ syncStatus = Error
    /\ employees = <<"A", "B">>
    /\ rawLogData # EmptyLogData

\* C11 (the claim as stated): in every reachable state the cached roster does
\* not list the reserved sentinel name 'SYSTEM', optimistic roster edits and
\* their rollback included.
C11_RosterNeverHoldsSentinel == Sentinel \notin Range(employees)

----------------------------------------------------------------------------
(* The normalizer applied to bounded row sequences *)

\* Rows the sheet may hold: roster events, attendance rows that are accepted
\* and that are dropped, a passphrase change, a row of an unknown kind, and
\* rows of the wrong shape
NormRowInputs ==
    { Row(<<"A", "employee_added", "T0", "D1">>),
      Row(<<"A", "employee_removed", "T0", "D1">>),
      Row(<<"B", "employee_added", "T0", "D1">>),
      Row(<<"B", "employee_removed", "T0", "D1">>),
      Row(<<"SYSTEM", "employee_added", "T0", "D1">>),
      Row(<<"", "employee_added", "T0", "D1">>),
      Row(<<"A", "checkin", "T1", "D1">>),
      Row(<<"A", "checkout", "T2", "D1">>),
      Row(<<"A", "checkin", "T1b", "D1">>),
      Row(<<"b", "checkout", "T0", "D1">>),
      Row(<<"SYSTEM", "checkin", "T1", "D1">>),
      Row(<<"B", "checkin", "yesterday", "D1">>),
      Row(<<"B", "checkout">>),
      Row(<<"B", "legacy_event", "T1", "D1">>),
      Row(<<"9999", "admin_password_change", "T1", "D1">>),
      Row(<<"4321", "admin_password_change", "T2", "D1">>),
      Row(<<"", "admin_password_change", "T2", "D1">>),
      Row(<<"", "checkin", "T1", "D1">>),
      Row(<<"A", "checkin", "T3", "D2">>),
      Row(<<"B">>),
      Row(<<>>),
      NotArrayRow }

\* What stands at index 0 of data.values
HeaderInputs == {HeaderRow, Row(<<"B", "employee_added", "T0", "D1">>)}

RECURSIVE SeqsUpTo(_, _)
SeqsUpTo(S, n) ==
    IF n = 0 THEN {<<>>}
    ELSE LET shorter == SeqsUpTo(S, n - 1) IN
         shorter \cup {Append(q, x) : q \in shorter, x \in S}

\* data.values || []: no rows at all, or a header followed by up to maxRows
\* data rows
NormInputs(maxRows) ==
    {<<>>} \cup {<<h>> \o body : h \in HeaderInputs,
                                 body \in SeqsUpTo(NormRowInputs, maxRows)}

\* The normalizer is about to be applied to some rows; the App component is
\* as constructed and stays so
NormInit ==
    /\ nRows \in NormInputs(MaxNormRows)
    /\ nDone = FALSE
    /\ nOut = Normalize(<<>>)
    /\ remote = <<HeaderRow>>
    /\ rawLogData = EmptyLogData
    /\ employees = <<>>
    /\ adminPassword = DefaultPassword
    /\ syncStatus = Connecting
    /\ alert = "none"
    /\ isUpdating = FALSE
    /\ fetches = EmptyBag
    /\ writes = EmptyBag
    /\ mounted = FALSE
    /\ ops = 0
    /\ last = "construct"
    /\ dLogs = <<>>
    /\ dMethod = "firstLast"
    /\ dStep = "input"
    /\ dCalc = [totalHours |-> 0, pairs |-> <<>>]
    /\ dSummary = [date |-> "", firstIn |-> Null, lastOut |-> Null,
                   totalHours |-> 0, shiftPairs |-> <<>>, logs |-> <<>>]
    /\ reportDate = 0
    /\ reportViewType = "month"
    /\ now = 0
    /\ tzOffset = 0
    /\ employeeData = <<>>
    /\ reportData = <<>>
    /\ navCount = 0
    /\ posting = NoPosting
    /\ resolved = <<>>

\* fetchAndProcessData folds the rows it was given
NormApply ==
    /\ ~nDone
    /\ nDone' = TRUE
    /\ nOut' = Normalize(nRows)
    /\ UNCHANGED nRows
    /\ UNCHANGED appVars
    /\ UNCHANGED <<dayVars, reportVars, recordVars, historyVars>>

\* fetchAndProcessData is called once more and is given the same rows
NormReplay ==
    /\ nDone
    /\ last = "construct"
    /\ last' = "NormReplay"
    /\ nOut' = NormalizeAfter(nOut, nRows)
    /\ UNCHANGED <<nRows, nDone>>
    /\ UNCHANGED <<remote, rawLogData, employees, adminPassword, syncStatus,
                   alert, isUpdating, fetches, writes, mounted, ops>>
    /\ UNCHANGED <<dayVars, reportVars, recordVars, historyVars>>

NormNext ==
    \/ NormApply
    \/ NormReplay

SpecNorm == NormInit /\ [][NormNext]_vars

\* C32: isUpdating.current is true in every state in which the write of at
\* least one optimistic roster mutation (handleAddEmployee or
\* handleRemoveEmployee) has been started and has not resolved, also when
\* two such mutations overlap.
C32_UpdatingWhileRosterWrite == RosterWrites # {} => isUpdating

\* The roster shows the optimistic edit of a resolved roster mutation: the
\* added name is listed, the removed name is not
EffectPresent(mutation) ==
    IF mutation.caller = "add"
    THEN mutation.name \in Range(employees)
    ELSE mutation.name \notin Range(employees)

\* C33: when two optimistic roster mutations of different names overlap (the
\* second starts before the write of the first resolves) and one write fails
\* while the other succeeds, the roster after both have resolved shows the
\* edit of the successful mutation and not the edit of the failed one.
C33_OverlapKeepsSuccessfulOnly ==
    (/\ last = "ResolveWrite"
     /\ RosterWrites = {}
     /\ Len(resolved) = 2
     /\ \A i \in 1..2 : resolved[i].caller \in {"add", "remove"}
     /\ resolved[1].overlapped
     /\ resolved[1].name # resolved[2].name
     /\ resolved[1].success # resolved[2].success)
    => \A i \in 1..2 : EffectPresent(resolved[i]) <=> resolved[i].success

\* C34: when the write of an optimistic roster mutation resolves, with
\* success or with failure, isUpdating.current is cleared, and while no
\* roster write is in flight a background refresh is not skipped: it issues
\* its fetch.
C34_ResolvedMutationClearsFlag ==
    /\ [][(/\ Len(resolved') > Len(resolved)
           /\ resolved'[Len(resolved')].caller \in {"add", "remove"}) => ~isUpdating']_vars
    /\ [](RosterWrites = {} => ~isUpdating)
    /\ [][(last' = "BackgroundSync" /\ RosterWrites = {}) => Grew(fetches, fetches')]_vars

\* C34 witness: the write of a roster mutation failed, and the background
\* refresh that followed went out.
C34_Witness ==
    /\ last = "BackgroundSync"
    /\ Len(resolved) = 1
    /\ ~resolved[1].success
    /\ ~isUpdating
    /\ syncStatus = Syncing
    /\ fetches # EmptyBag

\* C35: handleAddEmployee with a name that is empty after trimming, or that
\* the roster already lists, shows an error notice and changes nothing else:
\* the roster, isUpdating.current, the sync status, the caches and the sheet
\* are unchanged and no write is issued.
C35_RejectedAddChangesNothing ==
    [][\A name \in NameInputs, at \in Instants :
          (/\ HandleAddEmployee(name, at)
           /\ (Trim(name) = "" \/ Trim(name) \in Range(employees)))
          => /\ alert' \in ErrorNotices
             /\ UNCHANGED <<employees, isUpdating, syncStatus, writes, fetches,
                            remote, rawLogData, adminPassword>>]_vars

\* C35 witness: a name the roster lists was typed in again, and refused.
C35_Witness ==
    /\ last = "HandleAddEmployee"
    /\ alert = "name_exists"
    /\ employees # <<>>

\* C38: the sync status is never Offline: from Connecting on, it is always
\* one of Connecting, Connected, Syncing and Error; and only loadData enters
\* Connecting: once the status has left it, no step brings it back.
C38_NeverOffline ==
    /\ [](syncStatus \in {Connecting, Connected, Syncing, Error})
    /\ [][syncStatus' = Connecting => (last' = "Mount" \/ syncStatus = Connecting)]_vars

\* C38 witness: the load has completed and a later write is in flight; the
\* status has gone from Connecting through Connected to Syncing.
C38_Witness ==
    /\ syncStatus = Syncing
    /\ last \in {"HandleCheckInOut", "HandleQuickAction"}
    /\ fetches = EmptyBag
    /\ rawLogData # EmptyLogData

----------------------------------------------------------------------------
(* Claims about the normalizer, checked under SpecNorm *)

NormNames == {"A", "B", "b", "SYSTEM"}

\* The data rows: everything after the header
DataIndices(rows) == 2..Len(rows)

\* Row i is a roster event for name
IsRosterEvent(rows, i, name) ==
    /\ rows[i].arr
    /\ Cell(rows[i], 2) \in {"employee_added", "employee_removed"}
    /\ Cell(rows[i], 1) = name

\* The action of the last roster event for name ("" when there is none)
LastRosterEvent(rows, name) ==
    LET events == {i \in DataIndices(rows) : IsRosterEvent(rows, i, name)} IN
    IF events = {} THEN ""
    ELSE Cell(rows[CHOOSE i \in events : \A j \in events : j <= i], 2)

\* C9: when the last roster event for a name other than the sentinel is
\* employee_added, the name is in the roster the normalizer returns, whatever
\* employee_removed rows came before it.
C9_LaterAddWins ==
    nDone =>
        \A name \in NormNames \ {Sentinel} :
            LastRosterEvent(nRows, name) = "employee_added"
                => name \in Range(nOut.employees)

\* C9 witness: A was added, removed and added again, and is in the roster.
C9_Witness ==
    /\ nDone
    /\ Len(nRows) = 4
    /\ Cell(nRows[2], 1) = "A" /\ Cell(nRows[2], 2) = "employee_added"
    /\ Cell(nRows[3], 1) = "A" /\ Cell(nRows[3], 2) = "employee_removed"
    /\ Cell(nRows[4], 1) = "A" /\ Cell(nRows[4], 2) = "employee_added"
    /\ "A" \in Range(nOut.employees)

\* Row i registers its actor as a roster candidate: an employee_added row, an
\* accepted check-in / check-out row, or a row with an unknown action
IsCandidateRow(rows, i, name) ==
    LET action == Cell(rows[i], 2) IN
    /\ rows[i].arr
    /\ name # ""
    /\ Cell(rows[i], 1) = name
    /\ action # ""
    /\ action \notin {"employee_removed", "admin_password_change"}
    /\ action \in {"checkin", "checkout"} =>
          /\ Cell(rows[i], 3) # ""
          /\ Cell(rows[i], 4) # ""
          /\ ParseTime(Cell(rows[i], 3)) # NaN

ExpectedRoster(rows) ==
    {name \in NormNames :
        /\ \E i \in DataIndices(rows) : IsCandidateRow(rows, i, name)
        /\ name # Sentinel
        /\ LastRosterEvent(rows, name) # "employee_removed"}

\* C10: the roster is exactly the candidates, without the sentinel and
\* without the names whose last roster event is employee_removed, in locale
\* order.
C10_RosterExact ==
    nDone =>
        /\ Range(nOut.employees) = ExpectedRoster(nRows)
        /\ IsLocaleSorted(nOut.employees)

\* C10 witness: B was removed and then seen only in an attendance row or a
\* row of unknown kind; B is absent from the roster, which still lists others.
C10_Witness ==
    /\ nDone
    /\ \E i, j \in DataIndices(nRows) :
          /\ i < j
          /\ IsRosterEvent(nRows, i, "B") /\ Cell(nRows[i], 2) = "employee_removed"
          /\ IsCandidateRow(nRows, j, "B")
          /\ Cell(nRows[j], 2) # "employee_added"
    /\ "B" \notin Range(nOut.employees)
    /\ nOut.employees # <<>>

\* Row i is a passphrase change that carries a passphrase
IsPasswordRow(rows, i) ==
    /\ rows[i].arr
    /\ Cell(rows[i], 2) = "admin_password_change"
    /\ Cell(rows[i], 1) # ""

ExpectedPassword(rows) ==
    LET changes == {i \in DataIndices(rows) : IsPasswordRow(rows, i)} IN
    IF changes = {} THEN "1234"
    ELSE Cell(rows[CHOOSE i \in changes : \A j \in changes : j <= i], 1)

\* C12: the passphrase the normalizer returns is the actor field of the last
\* admin_password_change row that has a non-empty actor field, and '1234'
\* when the rows hold no such row.
C12_LastPasswordWins ==
    nDone => nOut.adminPassword = ExpectedPassword(nRows)

\* C12 witness: the passphrase was changed to 9999, then to 4321, and a last
\* change row carries no passphrase; the result is 4321.
C12_Witness ==
    /\ nDone
    /\ Len(nRows) = 4
    /\ IsPasswordRow(nRows, 2) /\ Cell(nRows[2], 1) = "9999"
    /\ IsPasswordRow(nRows, 3) /\ Cell(nRows[3], 1) = "4321"
    /\ Cell(nRows[4], 2) = "admin_password_change" /\ Cell(nRows[4], 1) = ""
    /\ nOut.adminPassword = "4321"

\* The rows without the row at index i
RemoveAt(rows, i) == SubSeq(rows, 1, i - 1) \o SubSeq(rows, i + 1, Len(rows))

IsAttendanceRow(rows, i) ==
    /\ rows[i].arr
    /\ Cell(rows[i], 2) \in {"checkin", "checkout"}

\* An attendance row with an empty actor, timestamp or date field, or with a
\* timestamp that is no instant
IsDroppedAttendance(rows, i) ==
    /\ IsAttendanceRow(rows, i)
    /\ \/ Cell(rows[i], 1) = ""
       \/ Cell(rows[i], 3) = ""
       \/ Cell(rows[i], 4) = ""
       \/ ParseTime(Cell(rows[i], 3)) \notin 0..3

\* The accepted attendance rows of the group (actor, date)
AcceptedRows(rows, k) ==
    {i \in DataIndices(rows) :
        /\ IsAttendanceRow(rows, i)
        /\ ~IsDroppedAttendance(rows, i)
        /\ <<Cell(rows[i], 1), Cell(rows[i], 4)>> = k}

LogOfRow(row) == [action |-> Cell(row, 2), timestamp |-> Cell(row, 3)]

NormDates == {"D1", "D2"}

\* C13: a check-in / check-out row with an empty actor, timestamp or date
\* field, or with a timestamp that is no valid instant, is dropped: the result
\* is the result for the rows without it (no log entry, no roster candidate,
\* the other rows unaffected).  The accepted rows are the entries of the
\* groups, each in the group of its own (actor, date).
C13_BadAttendanceDropped ==
    nDone =>
        /\ \A i \in DataIndices(nRows) :
              IsDroppedAttendance(nRows, i) => nOut = Normalize(RemoveAt(nRows, i))
        /\ DOMAIN nOut.rawLogData =
              {k \in (NormNames \cup {""}) \X (NormDates \cup {""}) :
                  AcceptedRows(nRows, k) # {}}
        /\ \A k \in DOMAIN nOut.rawLogData :
              /\ Len(nOut.rawLogData[k]) = Cardinality(AcceptedRows(nRows, k))
              /\ Range(nOut.rawLogData[k]) =
                    {LogOfRow(nRows[i]) : i \in AcceptedRows(nRows, k)}

\* C13 witness: between two accepted rows of A stands a check-in of B whose
\* timestamp is no instant; B has no group and is not in the roster, and the
\* rows of A are in the groups of their dates.
C13_Witness ==
    /\ nDone
    /\ Len(nRows) = 4
    /\ nRows[2] = Row(<<"A", "checkin", "T1", "D1">>)
    /\ nRows[3] = Row(<<"B", "checkin", "yesterday", "D1">>)
    /\ nRows[4] = Row(<<"A", "checkin", "T3", "D2">>)
    /\ DOMAIN nOut.rawLogData = {<<"A", "D1">>, <<"A", "D2">>}
    /\ nOut.employees = <<"A">>

\* A row the loop passes over: no array, an empty array, or no action field
IsMalformedRow(rows, i) ==
    \/ ~rows[i].arr
    \/ Len(rows[i].cells) = 0
    \/ Cell(rows[i], 2) = ""

\* C14: the normalizer returns a result for every row sequence; a row that is
\* no array, is empty or has no action field is skipped, the result being the
\* result for the rows without it; and the row at index 0 is never read: the
\* result is the same whatever stands there.
C14_MalformedRowsSkipped ==
    nDone =>
        /\ nOut.adminPassword \in {"1234", "9999", "4321"}
        /\ Range(nOut.employees) \subseteq NormNames
        /\ \A i \in DataIndices(nRows) :
              IsMalformedRow(nRows, i) => nOut = Normalize(RemoveAt(nRows, i))
        /\ nRows # <<>> => nOut = Normalize(<<HeaderRow>> \o Tail(nRows))
        /\ nRows = <<>> =>
              /\ nOut.employees = <<>>
              /\ nOut.adminPassword = "1234"
              /\ nOut.rawLogData = EmptyLogData

\* C14 witness: a roster event stands at index 0 and is ignored; a row that
\* is no array and a row without an action field are skipped, and the row
\* after them is processed.
C14_Witness ==
    /\ nDone
    /\ Len(nRows) = 4
    /\ nRows[1] = Row(<<"B", "employee_added", "T0", "D1">>)
    /\ nRows[2] = NotArrayRow
    /\ nRows[3] = Row(<<"B">>)
    /\ nRows[4] = Row(<<"A", "checkin", "T1", "D1">>)
    /\ nOut.employees = <<"A">>
    /\ DOMAIN nOut.rawLogData = {<<"A", "D1">>}

RowBefore(rows, i, j) ==
    \/ ParseTime(Cell(rows[i], 3)) < ParseTime(Cell(rows[j], 3))
    \/ /\ ParseTime(Cell(rows[i], 3)) = ParseTime(Cell(rows[j], 3))
       /\ i < j

\* The accepted row of group k that n - 1 others of the group come before
RowAtRank(rows, k, n) ==
    CHOOSE i \in AcceptedRows(rows, k) :
        Cardinality({j \in AcceptedRows(rows, k) : RowBefore(rows, j, i)}) = n - 1

\* C31: after normalization the log list of every (employee, date) group is
\* sorted ascending by parsed timestamp, and entries whose timestamps parse
\* to the same instant stand in the order of their rows.
C31_GroupsSortedStable ==
    nDone =>
        \A k \in DOMAIN nOut.rawLogData :
            /\ \A n \in 1..(Len(nOut.rawLogData[k]) - 1) :
                  ParseTime(nOut.rawLogData[k][n].timestamp)
                      <= ParseTime(nOut.rawLogData[k][n + 1].timestamp)
            /\ \A n \in 1..Len(nOut.rawLogData[k]) :
                  nOut.rawLogData[k][n] = LogOfRow(nRows[RowAtRank(nRows, k, n)])

\* C31 witness: the check-out of A stands before its two check-ins, which
\* are two spellings of one instant; the group lists the check-ins in row
\* order and then the check-out.
C31_Witness ==
    /\ nDone
    /\ Len(nRows) = 4
    /\ nRows[2] = Row(<<"A", "checkout", "T2", "D1">>)
    /\ nRows[3] = Row(<<"A", "checkin", "T1b", "D1">>)
    /\ nRows[4] = Row(<<"A", "checkin", "T1", "D1">>)
    /\ nOut.rawLogData[<<"A", "D1">>] =
          << [action |-> "checkin", timestamp |-> "T1b"],
             [action |-> "checkin", timestamp |-> "T1"],
             [action |-> "checkout", timestamp |-> "T2"] >>

----------------------------------------------------------------------------
(* The shift pairing algorithm and the daily summary of one group *)

\* The instants T0..T3 are one hour apart
MsPerHour == 3600000

\* new Date(timestamp).getTime(), in milliseconds
GetTime(timestamp) == ParseTime(timestamp) * MsPerHour

\* new Date(ms).toISOString(): the canonical spelling of an instant
IsoOfMs(ms) == ToISOString(ms \div MsPerHour)

\* ms / (1000 * 60 * 60)
Hours(ms) == ms \div MsPerHour

\* logs.filter(l => l.action === 'checkin' || l.action === 'checkout')
SelectAttendance(logs) == SelectSeq(logs, LAMBDA l : l.action \in {"checkin", "checkout"})

\* Mutant: the logs are paired in the order given
SortedLogsUnsorted(logs) == SelectAttendance(logs)

\* sortedLogs: the attendance logs in the order of their instants (stable)
SortedLogs(logs) == SortLogs(SelectAttendance(logs))

\* Mutant: the loop starts with a check-in pending since the epoch
PairStartPending == [totalMs |-> 0, pairs |-> <<>>, lastCheckinTime |-> <<0>>]

\* totalMs, pairs and lastCheckinTime before the loop; lastCheckinTime is
\* <<>> for null and <<ms>> for a Date
PairStart == [totalMs |-> 0, pairs |-> <<>>, lastCheckinTime |-> <<>>]

\* Mutant: a check-in replaces the pending check-in
OnCheckinOverwrites(acc, timestamp) ==
    [acc EXCEPT !.lastCheckinTime = <<timestamp>>]

\* if (log.action === 'checkin'): only the first check-in becomes pending
OnCheckin(acc, timestamp) ==
    IF acc.lastCheckinTime = <<>>
    THEN [acc EXCEPT !.lastCheckinTime = <<timestamp>>]
    ELSE acc

\* Mutant: a shift of no length is emitted
DurationCountsFromZero(durationMs) == durationMs >= 0

\* if (durationMs > 0)
DurationCounts(durationMs) == durationMs > 0

\* Mutant: a check-out at or before the pending check-in leaves it pending
ClosePendingKeptOnZero(acc, checkinMs, timestamp) ==
    LET durationMs == timestamp - checkinMs IN
    [totalMs |-> IF DurationCounts(durationMs) THEN acc.totalMs + durationMs
                 ELSE acc.totalMs,
     pairs |-> IF DurationCounts(durationMs)
               THEN Append(acc.pairs, [checkin |-> IsoOfMs(checkinMs),
                                       checkout |-> IsoOfMs(timestamp),
                                       duration |-> Hours(durationMs)])
               ELSE acc.pairs,
     lastCheckinTime |-> IF DurationCounts(durationMs) THEN <<>> ELSE <<checkinMs>>]

\* The body of the check-out branch, a check-in being pending since checkinMs
ClosePending(acc, checkinMs, timestamp) ==
    LET durationMs == timestamp - checkinMs IN
    [totalMs |-> IF DurationCounts(durationMs) THEN acc.totalMs + durationMs
                 ELSE acc.totalMs,
     pairs |-> IF DurationCounts(durationMs)
               THEN Append(acc.pairs, [checkin |-> IsoOfMs(checkinMs),
                                       checkout |-> IsoOfMs(timestamp),
                                       duration |-> Hours(durationMs)])
               ELSE acc.pairs,
     lastCheckinTime |-> <<>>]

\* Mutant: a check-out with nothing pending closes a shift begun at the epoch
OnCheckoutFromEpoch(acc, timestamp) ==
    IF acc.lastCheckinTime # <<>>
    THEN ClosePending(acc, acc.lastCheckinTime[1], timestamp)
    ELSE ClosePending(acc, 0, timestamp)

\* else if (log.action === 'checkout' && lastCheckinTime !== null)
OnCheckout(acc, timestamp) ==
    IF acc.lastCheckinTime # <<>>
    THEN ClosePending(acc, acc.lastCheckinTime[1], timestamp)
    ELSE acc

\* One pass of the loop body of calculateHoursAndPairs
PairStep(acc, log) ==
    LET timestamp == GetTime(log.timestamp) IN
    IF log.action = "checkin" THEN OnCheckin(acc, timestamp)
    ELSE IF log.action = "checkout" THEN OnCheckout(acc, timestamp)
    ELSE acc

RECURSIVE PairLoop(_, _)
PairLoop(sortedLogs, acc) ==
    IF sortedLogs = <<>> THEN acc
    ELSE PairLoop(Tail(sortedLogs), PairStep(acc, Head(sortedLogs)))

\* calculateHoursAndPairs(logs)
CalculateHoursAndPairs(logs) ==
    LET acc == PairLoop(SortedLogs(logs), PairStart) IN
    [totalHours |-> Hours(acc.totalMs), pairs |-> acc.pairs]

\* logs.filter(log => log.action === action)
LogsOfAction(logs, action) == SelectSeq(logs, LAMBDA l : l.action = action)

\* Mutant: the copy returns early for every list
CalculateHoursAndPairsUnnamedEmpty(logs) == [totalHours |-> 0, pairs |-> <<>>]

\* calculateHoursAndPairs(logs) of the unnamed App source: zero hours and no
\* pairs at once when the list has no check-in or no check-out, the same
\* sort and loop otherwise
CalculateHoursAndPairsUnnamed(logs) ==
    LET checkins == LogsOfAction(logs, "checkin")
        checkouts == LogsOfAction(logs, "checkout")
    IN IF Len(checkins) = 0 \/ Len(checkouts) = 0
       THEN [totalHours |-> 0, pairs |-> <<>>]
       ELSE LET acc == PairLoop(SortedLogs(logs), PairStart) IN
            [totalHours |-> Hours(acc.totalMs), pairs |-> acc.pairs]

\* Mutant: firstIn is taken from the end of the check-ins
FirstInFromEnd(logs) ==
    LET checkins == LogsOfAction(logs, "checkin") IN
    IF Len(checkins) > 0 THEN checkins[Len(checkins)].timestamp ELSE Null

\* firstIn: checkins[0].timestamp, or null
FirstIn(logs) ==
    LET checkins == LogsOfAction(logs, "checkin") IN
    IF Len(checkins) > 0 THEN checkins[1].timestamp ELSE Null

\* Mutant: lastOut is taken from the start of the check-outs
LastOutFromStart(logs) ==
    LET checkouts == LogsOfAction(logs, "checkout") IN
    IF Len(checkouts) > 0 THEN checkouts[1].timestamp ELSE Null

\* lastOut: checkouts[checkouts.length - 1].timestamp, or null
LastOut(logs) ==
    LET checkouts == LogsOfAction(logs, "checkout") IN
    IF Len(checkouts) > 0 THEN checkouts[Len(checkouts)].timestamp ELSE Null

\* Mutant: the difference is returned whatever its sign
TotalHoursFirstLastSigned(firstIn, lastOut) ==
    IF firstIn = Null \/ lastOut = Null THEN 0
    ELSE Hours(GetTime(lastOut) - GetTime(firstIn))

\* totalHoursFirstLast()
TotalHoursFirstLast(firstIn, lastOut) ==
    IF firstIn = Null \/ lastOut = Null THEN 0
    ELSE IF GetTime(lastOut) > GetTime(firstIn)
         THEN Hours(GetTime(lastOut) - GetTime(firstIn))
         ELSE 0

\* The DailySummary the summary effect stores for one group of rawLogData
DailySummaryOf(date, logs, calculationMethod) ==
    LET firstIn == FirstIn(logs)
        lastOut == LastOut(logs)
        calc == CalculateHoursAndPairs(logs)
    IN [date |-> date, firstIn |-> firstIn, lastOut |-> lastOut,
        totalHours |-> IF calculationMethod = "firstLast"
                       THEN TotalHoursFirstLast(firstIn, lastOut)
                       ELSE calc.totalHours,
        shiftPairs |-> calc.pairs,
        logs |-> logs]

\* The group as fetchAndProcessData leaves it in rawLogData: sorted in place
GroupLogs(pushed) == SortLogs(pushed)

CalculationMethods == {"firstLast", "pairs"}
DayTimestamps == {"T0", "T1", "T1b", "T2", "T3"}
DayLogInputs ==
    {[action |-> a, timestamp |-> t] : a \in {"checkin", "checkout"}, t \in DayTimestamps}
DayDate == "D1"

\* The logs of one (employee, date) group, in the order of their rows
DayInit ==
    /\ dLogs \in SeqsUpTo(DayLogInputs, MaxDayLogs)
    /\ dMethod \in CalculationMethods
    /\ dStep = "input"
    /\ dCalc = [totalHours |-> 0, pairs |-> <<>>]
    /\ dSummary = [date |-> "", firstIn |-> Null, lastOut |-> Null,
                   totalHours |-> 0, shiftPairs |-> <<>>, logs |-> <<>>]
    /\ reportDate = 0
    /\ reportViewType = "month"
    /\ now = 0
    /\ tzOffset = 0
    /\ employeeData = <<>>
    /\ reportData = <<>>
    /\ navCount = 0
    /\ posting = NoPosting
    /\ resolved = <<>>
    /\ nRows = <<>>
    /\ nDone = FALSE
    /\ nOut = Normalize(<<>>)
    /\ remote = <<HeaderRow>>
    /\ rawLogData = EmptyLogData
    /\ employees = <<>>
    /\ adminPassword = DefaultPassword
    /\ syncStatus = Connecting
    /\ alert = "none"
    /\ isUpdating = FALSE
    /\ fetches = EmptyBag
    /\ writes = EmptyBag
    /\ mounted = FALSE
    /\ ops = 0
    /\ last = "construct"

\* calculateHoursAndPairs is applied to the logs as given
CalculateDay ==
    /\ dStep = "input"
    /\ dStep' = "calculated"
    /\ dCalc' = CalculateHoursAndPairs(dLogs)
    /\ UNCHANGED <<dLogs, dMethod, dSummary>>
    /\ UNCHANGED <<appVars, normVars, reportVars, recordVars, historyVars>>

\* The summary effect runs over the group as the normalizer stored it
SummarizeDay ==
    /\ dStep = "calculated"
    /\ dStep' = "summarized"
    /\ dSummary' = DailySummaryOf(DayDate, GroupLogs(dLogs), dMethod)
    /\ UNCHANGED <<dLogs, dMethod, dCalc>>
    /\ UNCHANGED <<appVars, normVars, reportVars, recordVars, historyVars>>

\* Mutant: the summary derived under the other policy is kept
SummaryAfterSwitchKept(method) == dSummary

\* The summary the effect derives when calculationMethod has become method:
\* the whole DailySummary anew, from the logs in rawLogData
SummaryAfterSwitch(method) == DailySummaryOf(DayDate, GroupLogs(dLogs), method)

\* setCalculationMethod(the other policy); the summary effect, which has
\* calculationMethod among its dependencies, runs again
SwitchMethod ==
    /\ dStep = "summarized"
    /\ dMethod' \in CalculationMethods \ {dMethod}
    /\ dSummary' = SummaryAfterSwitch(dMethod')
    /\ last' = "SwitchMethod"
    /\ UNCHANGED <<dLogs, dStep, dCalc>>
    /\ UNCHANGED <<remote, rawLogData, employees, adminPassword, syncStatus,
                   alert, isUpdating, fetches, writes, mounted, ops>>
    /\ UNCHANGED <<normVars, reportVars, recordVars, historyVars>>

\* Mutant: the catch block empties the derived summaries
SummaryAfterErrorCleared ==
    [date |-> "", firstIn |-> Null, lastOut |-> Null,
     totalHours |-> 0, shiftPairs |-> <<>>, logs |-> <<>>]

\* attendanceData after an exception in the effect: setAttendanceData is the
\* last statement of the try block and has not run
SummaryAfterError == dSummary

\* A run of the summary effect (the first, or the one after a switch of
\* policy) throws before it reaches setAttendanceData: the catch block
SummaryEffectFails ==
    /\ dStep \in {"calculated", "summarized"}
    /\ dStep' = "failed"
    /\ dMethod' \in IF dStep = "summarized" THEN CalculationMethods \ {dMethod}
                    ELSE {dMethod}
    /\ dSummary' = SummaryAfterError
    /\ alert' = "processing_error"
    /\ syncStatus' = Error
    /\ last' = "SummaryEffectFails"
    /\ UNCHANGED <<dLogs, dCalc>>
    /\ UNCHANGED <<remote, rawLogData, employees, adminPassword, isUpdating,
                   fetches, writes, mounted, ops>>
    /\ UNCHANGED <<normVars, reportVars, recordVars, historyVars>>

DayNext ==
    \/ CalculateDay
    \/ SummarizeDay
    \/ SwitchMethod
    \/ SummaryEffectFails

SpecDay == DayInit /\ [][DayNext]_vars

----------------------------------------------------------------------------
(* Claims about the pairing and the daily summary, checked under SpecDay *)

\* The logs are in the order of their instants
IsTimeSorted(logs) ==
    \A i, j \in 1..Len(logs) :
        i < j => ParseTime(logs[i].timestamp) <= ParseTime(logs[j].timestamp)

\* The canonical spelling of the instant of a timestamp text
Canonical(timestamp) == ToISOString(ParseTime(timestamp))

\* logs[i] is the first check-in since the previous check-out, or since the
\* start: every earlier check-in is followed by a check-out before i
OpensShift(logs, i) ==
    /\ logs[i].action = "checkin"
    /\ \A m \in 1..(i - 1) :
          logs[m].action = "checkin"
              => \E c \in (m + 1)..(i - 1) : logs[c].action = "checkout"

\* logs[j] is the first check-out after logs[i]
ClosesShift(logs, i, j) ==
    /\ i < j
    /\ logs[j].action = "checkout"
    /\ \A c \in (i + 1)..(j - 1) : logs[c].action # "checkout"

\* The shifts of a sorted log list: an opening check-in, the first check-out
\* after it, and a positive length
ExpectedPairs(logs) ==
    {ij \in (1..Len(logs)) \X (1..Len(logs)) :
        /\ OpensShift(logs, ij[1])
        /\ ClosesShift(logs, ij[1], ij[2])
        /\ ParseTime(logs[ij[2]].timestamp) > ParseTime(logs[ij[1]].timestamp)}

CheckIn(timestamp) == [action |-> "checkin", timestamp |-> timestamp]
CheckOut(timestamp) == [action |-> "checkout", timestamp |-> timestamp]

\* C16: for a sorted log list the pairs are exactly the shifts that begin at
\* the first check-in since the previous check-out (or since the start) and
\* end at the first check-out after it; a check-in that arrives while another
\* is pending neither replaces it nor adds a pair, so
\* [CheckIn@T0, CheckIn@T1, CheckOut@T2] yields the one pair T0..T2.
C16_FirstCheckinKept ==
    dStep # "input" /\ IsTimeSorted(dLogs) =>
        /\ Len(dCalc.pairs) = Cardinality(ExpectedPairs(dLogs))
        /\ \A k \in 1..Len(dCalc.pairs) :
              \E ij \in ExpectedPairs(dLogs) :
                  /\ dCalc.pairs[k].checkin = Canonical(dLogs[ij[1]].timestamp)
                  /\ dCalc.pairs[k].checkout = Canonical(dLogs[ij[2]].timestamp)
        /\ dLogs = <<CheckIn("T0"), CheckIn("T1"), CheckOut("T2")>>
              => dCalc.pairs = <<[checkin |-> "T0", checkout |-> "T2", duration |-> 2]>>

\* C16 witness: two check-ins and then a check-out have been paired into the
\* one shift that begins at the first check-in.
C16_Witness ==
    /\ dStep = "calculated"
    /\ dLogs = <<CheckIn("T0"), CheckIn("T1"), CheckOut("T2")>>
    /\ Len(dCalc.pairs) = 1
    /\ dCalc.pairs[1].checkin = "T0"
    /\ dCalc.totalHours = 2

CountOf(logs, action) == Cardinality({i \in 1..Len(logs) : logs[i].action = action})

\* C17: unmatched events produce no shift.  A list of check-outs only or of
\* check-ins only, and a sorted list in which no check-in stands before a
\* check-out, yield no pair and zero hours; a leading check-out of a sorted
\* list changes nothing; and every pair is made of a check-in and a check-out
\* of the list, each event closing at most one pair.
C17_UnmatchedYieldNothing ==
    dStep # "input" =>
        /\ CountOf(dLogs, "checkin") = 0 \/ CountOf(dLogs, "checkout") = 0
              => dCalc.pairs = <<>> /\ dCalc.totalHours = 0
        /\ ( /\ IsTimeSorted(dLogs)
             /\ \A i, j \in 1..Len(dLogs) :
                   i < j => ~(dLogs[i].action = "checkin" /\ dLogs[j].action = "checkout") )
              => dCalc.pairs = <<>> /\ dCalc.totalHours = 0
        /\ IsTimeSorted(dLogs) /\ dLogs # <<>> /\ dLogs[1].action = "checkout"
              => dCalc = CalculateHoursAndPairs(Tail(dLogs))
        /\ Len(dCalc.pairs) <= CountOf(dLogs, "checkin")
        /\ Len(dCalc.pairs) <= CountOf(dLogs, "checkout")
        /\ \A k \in 1..Len(dCalc.pairs) :
              \E i, j \in 1..Len(dLogs) :
                  /\ dLogs[i].action = "checkin"
                  /\ dLogs[j].action = "checkout"
                  /\ dCalc.pairs[k].checkin = Canonical(dLogs[i].timestamp)
                  /\ dCalc.pairs[k].checkout = Canonical(dLogs[j].timestamp)

\* C17 witness: a check-out followed by a later check-in has been processed
\* and there is no pair.
C17_Witness ==
    /\ dStep = "calculated"
    /\ dLogs = <<CheckOut("T1"), CheckIn("T2")>>
    /\ dCalc.pairs = <<>>
    /\ dCalc.totalHours = 0

\* C18: every pair ends strictly later than it begins and has a positive
\* duration; a check-out at the instant of the pending check-in emits no pair
\* and clears the pending check-in, so that the logs after it are paired as if
\* the two events were not there.
C18_PairsHavePositiveLength ==
    dStep # "input" =>
        /\ \A k \in 1..Len(dCalc.pairs) :
              /\ ParseTime(dCalc.pairs[k].checkout) > ParseTime(dCalc.pairs[k].checkin)
              /\ dCalc.pairs[k].duration > 0
        /\ ( /\ IsTimeSorted(dLogs)
             /\ Len(dLogs) >= 2
             /\ dLogs[1].action = "checkin"
             /\ dLogs[2].action = "checkout"
             /\ ParseTime(dLogs[1].timestamp) = ParseTime(dLogs[2].timestamp) )
              => dCalc = CalculateHoursAndPairs(SubSeq(dLogs, 3, Len(dLogs)))
        /\ dLogs = <<CheckIn("T1"), CheckOut("T1b"), CheckOut("T2")>>
              => dCalc.pairs = <<>>

\* C18 witness: a check-out at the instant of the pending check-in made no
\* pair, and the check-out after it found nothing pending.
C18_Witness ==
    /\ dStep = "calculated"
    /\ dLogs = <<CheckIn("T1"), CheckOut("T1b"), CheckOut("T2")>>
    /\ dCalc.pairs = <<>>
    /\ dCalc.totalHours = 0

RECURSIVE SumDurations(_)
SumDurations(pairs) ==
    IF pairs = <<>> THEN 0 ELSE Head(pairs).duration + SumDurations(Tail(pairs))

\* C19: the paired total is the sum of the durations of the pairs, and the
\* pairs are in chronological order without overlap: each pair begins not
\* earlier than the pair before it ended.
C19_TotalIsSumOfOrderedPairs ==
    dStep # "input" =>
        /\ dCalc.totalHours = SumDurations(dCalc.pairs)
        /\ \A k \in 1..(Len(dCalc.pairs) - 1) :
              /\ ParseTime(dCalc.pairs[k + 1].checkin) >= ParseTime(dCalc.pairs[k].checkout)
              /\ ParseTime(dCalc.pairs[k + 1].checkin) > ParseTime(dCalc.pairs[k].checkin)

\* C19 witness: logs given out of order have been paired into two shifts of
\* one hour each, the earlier first.
C19_Witness ==
    /\ dStep = "calculated"
    /\ dLogs = <<CheckIn("T2"), CheckOut("T3"), CheckIn("T0"), CheckOut("T1")>>
    /\ Len(dCalc.pairs) = 2
    /\ dCalc.pairs[1].checkin = "T0"
    /\ dCalc.pairs[2].checkout = "T3"
    /\ dCalc.totalHours = 2

\* C20: firstIn is the timestamp of an earliest check-in of the group and
\* null when the group has no check-in; lastOut is the timestamp of a latest
\* check-out and null when it has none.
C20_FirstInLastOut ==
    dStep = "summarized" =>
        /\ IF CountOf(dLogs, "checkin") = 0 THEN dSummary.firstIn = Null
           ELSE \E i \in 1..Len(dLogs) :
                  /\ dLogs[i] = CheckIn(dSummary.firstIn)
                  /\ \A j \in 1..Len(dLogs) :
                        dLogs[j].action = "checkin"
                            => ParseTime(dLogs[i].timestamp) <= ParseTime(dLogs[j].timestamp)
        /\ IF CountOf(dLogs, "checkout") = 0 THEN dSummary.lastOut = Null
           ELSE \E i \in 1..Len(dLogs) :
                  /\ dLogs[i] = CheckOut(dSummary.lastOut)
                  /\ \A j \in 1..Len(dLogs) :
                        dLogs[j].action = "checkout"
                            => ParseTime(dLogs[i].timestamp) >= ParseTime(dLogs[j].timestamp)

\* C20 witness: the rows of the group came out of order; firstIn is the
\* earliest check-in and lastOut the latest check-out.
C20_Witness ==
    /\ dStep = "summarized"
    /\ dLogs = <<CheckOut("T3"), CheckIn("T2"), CheckIn("T0"), CheckOut("T1")>>
    /\ dSummary.firstIn = "T0"
    /\ dSummary.lastOut = "T3"

\* The instants of the logs of one kind
InstantsOf(logs, action) ==
    {ParseTime(logs[i].timestamp) : i \in {j \in 1..Len(logs) : logs[j].action = action}}

MinOf(S) == CHOOSE x \in S : \A y \in S : x <= y
MaxOf(S) == CHOOSE x \in S : \A y \in S : x >= y

\* max(0, latest check-out - earliest check-in) in hours; 0 when either is missing
FirstLastHours(logs) ==
    LET ins == InstantsOf(logs, "checkin")
        outs == InstantsOf(logs, "checkout")
    IN IF ins = {} \/ outs = {} THEN 0
       ELSE IF MaxOf(outs) > MinOf(ins) THEN MaxOf(outs) - MinOf(ins) ELSE 0

\* C21: under the first-last policy totalHours is max(0, lastOut - firstIn)
\* in hours and 0 when firstIn or lastOut is missing or lastOut <= firstIn; it
\* is determined by the earliest check-in and the latest check-out of the
\* group alone, whatever lies between them.
C21_FirstLastTotal ==
    dStep = "summarized" /\ dMethod = "firstLast" =>
        /\ dSummary.totalHours = FirstLastHours(dLogs)
        /\ dSummary.totalHours >= 0
        /\ dSummary.firstIn = Null \/ dSummary.lastOut = Null
              => dSummary.totalHours = 0
        /\ dSummary.firstIn # Null /\ dSummary.lastOut # Null
              => dSummary.totalHours =
                    IF ParseTime(dSummary.lastOut) > ParseTime(dSummary.firstIn)
                    THEN ParseTime(dSummary.lastOut) - ParseTime(dSummary.firstIn)
                    ELSE 0

\* C21 witness: two shifts with a break between them; the first-last total is
\* the three hours from the first check-in to the last check-out, while the
\* shifts add up to two.
C21_Witness ==
    /\ dStep = "summarized"
    /\ dMethod = "firstLast"
    /\ dLogs = <<CheckIn("T0"), CheckOut("T1"), CheckIn("T2"), CheckOut("T3")>>
    /\ dSummary.totalHours = 3
    /\ dCalc.totalHours = 2

\* The group holds exactly one check-in and exactly one check-out
IsSingleShiftDay(logs) == CountOf(logs, "checkin") = 1 /\ CountOf(logs, "checkout") = 1

\* C22: for a group of exactly one check-in and one check-out, in either
\* order and also at one instant, the first-last total and the pairs total
\* are equal: the summary has the same totalHours under either policy, and
\* switching the policy does not change it.
C22_PoliciesAgreeOnSingleShift ==
    /\ [](dStep = "summarized" /\ IsSingleShiftDay(dLogs)
            => /\ dSummary.totalHours = dCalc.totalHours
               /\ dSummary.totalHours = FirstLastHours(dLogs))
    /\ [][SwitchMethod /\ IsSingleShiftDay(dLogs)
            => dSummary'.totalHours = dSummary.totalHours]_vars

\* C22 witness: the policy has been switched on a day of one check-in and one
\* later check-out, and the total is the two hours between them.
C22_Witness ==
    /\ last = "SwitchMethod"
    /\ dLogs = <<CheckOut("T3"), CheckIn("T1b")>>
    /\ dSummary.totalHours = 2

\* C23: a switch of the policy re-derives the summary from the same logs:
\* totalHours becomes the value of the newly selected policy, while date,
\* firstIn, lastOut, shiftPairs and logs stay as they are and the cached logs,
\* roster and passphrase are not touched; the total of a summary depends on
\* the selected policy alone, so switching back restores it.
C23_SwitchRederivesTotals ==
    /\ [][SwitchMethod
            => /\ dSummary'.totalHours =
                     IF dMethod' = "pairs" THEN dCalc.totalHours
                     ELSE FirstLastHours(dLogs)
               /\ dSummary'.date = dSummary.date
               /\ dSummary'.firstIn = dSummary.firstIn
               /\ dSummary'.lastOut = dSummary.lastOut
               /\ dSummary'.shiftPairs = dSummary.shiftPairs
               /\ dSummary'.logs = dSummary.logs
               /\ UNCHANGED <<rawLogData, employees, adminPassword, dLogs>>]_vars
    /\ [](dStep = "summarized"
            => dSummary.totalHours =
                  IF dMethod = "pairs" THEN dCalc.totalHours
                  ELSE FirstLastHours(dLogs))

\* C23 witness: the policy has been switched to pairs on a day of two shifts
\* with a break; the total is now two hours, not three.
C23_Witness ==
    /\ last = "SwitchMethod"
    /\ dMethod = "pairs"
    /\ dLogs = <<CheckIn("T0"), CheckOut("T1"), CheckIn("T2"), CheckOut("T3")>>
    /\ dSummary.totalHours = 2
    /\ Len(dSummary.shiftPairs) = 2

\* C29: an exception while the logs are aggregated is caught: the status
\* becomes Error, an error notice is shown, and the summaries derived before
\* stay as they are.
C29_ProcessingErrorKeepsSummaries ==
    [][SummaryEffectFails
          => /\ syncStatus' = Error
             /\ alert' \in ErrorNotices
             /\ alert' # alert
             /\ dSummary' = dSummary
             /\ UNCHANGED <<rawLogData, employees, adminPassword>>]_vars

\* C29 witness: the effect failed when the policy was switched; the summary
\* derived before is still there and the status is Error.
C29_Witness ==
    /\ last = "SummaryEffectFails"
    /\ dStep = "failed"
    /\ syncStatus = Error
    /\ alert = "processing_error"
    /\ dMethod = "pairs"
    /\ dSummary.totalHours = 3
    /\ dLogs = <<CheckIn("T0"), CheckOut("T1"), CheckIn("T2"), CheckOut("T3")>>

\* max(0, lastOut - firstIn) of a summary, in hours
SpanOfSummary(summary) ==
    IF summary.firstIn = Null \/ summary.lastOut = Null THEN 0
    ELSE IF ParseTime(summary.lastOut) > ParseTime(summary.firstIn)
         THEN ParseTime(summary.lastOut) - ParseTime(summary.firstIn)
         ELSE 0

\* C36: for every day group the durations of the emitted pairs add up to at
\* most max(0, lastOut - firstIn), the paired total never exceeds the
\* first-last total, and whenever a pair is emitted lastOut is later than
\* firstIn.
C36_PairsWithinFirstLast ==
    dStep = "summarized" =>
        /\ SumDurations(dSummary.shiftPairs) <= SpanOfSummary(dSummary)
        /\ DailySummaryOf(DayDate, GroupLogs(dLogs), "pairs").totalHours
              <= DailySummaryOf(DayDate, GroupLogs(dLogs), "firstLast").totalHours
        /\ dSummary.shiftPairs # <<>> =>
              /\ dSummary.firstIn # Null
              /\ dSummary.lastOut # Null
              /\ ParseTime(dSummary.lastOut) > ParseTime(dSummary.firstIn)

\* C36 witness: two shifts with a break between them; the pairs add up to
\* two hours, the span from the first check-in to the last check-out is three.
C36_Witness ==
    /\ dStep = "summarized"
    /\ dMethod = "pairs"
    /\ last = "construct"
    /\ Len(dSummary.shiftPairs) = 2
    /\ dSummary.totalHours = 2
    /\ SpanOfSummary(dSummary) = 3

\* C39: the two copies of calculateHoursAndPairs, the one of index.tsx and
\* the one of the unnamed App source with its early return, return the same
\* total and the same pairs for every log list.
C39_CopiesAgree ==
    dStep # "input" => dCalc = CalculateHoursAndPairsUnnamed(dLogs)

\* C39 witness: a list of check-ins without a check-out, for which the copy
\* returns early, and the loop of index.tsx has found no pair either.
C39_Witness ==
    /\ dStep = "calculated"
    /\ CountOf(dLogs, "checkin") = 3
    /\ CountOf(dLogs, "checkout") = 0
    /\ dCalc = [totalHours |-> 0, pairs |-> <<>>]

----------------------------------------------------------------------------
(* The report window and its navigator *)

\* Instants are minutes since 2023-11-01T00:00Z; a date text 'YYYY-MM-DD' is
\* the number of its day, 2023-11-01 being day 0
MinutesPerHour == 60
MinutesPerDay == 1440

\* 23:59:59.999 of a day, to the minute (every other instant of the model is
\* a whole number of minutes)
EndOfDayMinute == 1439

\* The calendar from November 2023 to March 2024: getFullYear(), getMonth(),
\* the number of the first day and the length of each month
CalendarMonths ==
    << [year |-> 2023, month |-> 10, first |-> 0, days |-> 30],
       [year |-> 2023, month |-> 11, first |-> 30, days |-> 31],
       [year |-> 2024, month |-> 0, first |-> 61, days |-> 31],
       [year |-> 2024, month |-> 1, first |-> 92, days |-> 29],
       [year |-> 2024, month |-> 2, first |-> 121, days |-> 31] >>

\* getDay() of day 0: 2023-11-01 is a Wednesday
WeekdayOfDayZero == 3

\* The local calendar day and the local time of day of an instant
LocalDay(t) == (t + tzOffset * MinutesPerHour) \div MinutesPerDay
MinuteOfDay(t) == (t + tzOffset * MinutesPerHour) % MinutesPerDay

\* new Date(year, month, day, hours, minutes) in local time
MakeLocal(day, minute) == day * MinutesPerDay + minute - tzOffset * MinutesPerHour

\* The position in CalendarMonths of the month a day lies in
MonthIndex(day) ==
    CHOOSE i \in 1..Len(CalendarMonths) :
        /\ CalendarMonths[i].first <= day
        /\ day < CalendarMonths[i].first + CalendarMonths[i].days

\* Date.prototype.getFullYear / getMonth / getDate / getDay, in local time
GetFullYear(t) == CalendarMonths[MonthIndex(LocalDay(t))].year
GetMonth(t) == CalendarMonths[MonthIndex(LocalDay(t))].month
GetDate(t) == LocalDay(t) - CalendarMonths[MonthIndex(LocalDay(t))].first + 1
GetDay(t) == (LocalDay(t) + WeekdayOfDayZero) % 7

\* d.setHours(0, 0, 0, 0) and d.setHours(23, 59, 59, 999)
StartOfDay(t) == MakeLocal(LocalDay(t), 0)
EndOfDay(t) == MakeLocal(LocalDay(t), EndOfDayMinute)

\* d.setDate(n): day n of the month of d, n <= 0 and n beyond the end of the
\* month running into the neighbouring months; the time of day is kept
SetDate(t, n) ==
    MakeLocal(CalendarMonths[MonthIndex(LocalDay(t))].first + n - 1, MinuteOfDay(t))

\* d.setMonth(d.getMonth() + offset): the same day of the month, offset months
\* away, a day beyond the end of that month running into the next
AddMonths(t, offset) ==
    MakeLocal(CalendarMonths[MonthIndex(LocalDay(t)) + offset].first + GetDate(t) - 1,
              MinuteOfDay(t))

\* new Date('YYYY-MM-DD'): midnight UTC of the day
ParseDate(date) == date * MinutesPerDay

\* toISOString().split('T')[0]: the day in UTC
UtcDate(t) == t \div MinutesPerDay

\* getWeekRange(date)
GetWeekRange(date) ==
    LET d == StartOfDay(date)
        day == GetDay(d)
        diff == GetDate(d) - day
        startOfWeek == SetDate(d, diff)
        endOfWeek == SetDate(startOfWeek, GetDate(startOfWeek) + 6)
    IN [startOfWeek |-> startOfWeek, endOfWeek |-> endOfWeek]

\* daysInRange.sort((a, b) => getTime(a.date) - getTime(b.date)): stable
RECURSIVE InsertByDate(_, _)
InsertByDate(date, sorted) ==
    IF sorted = <<>> THEN <<date>>
    ELSE IF ParseDate(date) < ParseDate(Head(sorted)) THEN <<date>> \o sorted
    ELSE <<Head(sorted)>> \o InsertByDate(date, Tail(sorted))

RECURSIVE InsertAllByDate(_)
InsertAllByDate(dates) ==
    IF dates = <<>> THEN <<>>
    ELSE InsertByDate(dates[Len(dates)], InsertAllByDate(SubSeq(dates, 1, Len(dates) - 1)))

\* Mutant: the days are returned in the order of the map
SortByDateOmitted(dates) == dates

SortByDate(dates) == InsertAllByDate(dates)

\* The days the loops and the lookup of the report memo push, in map order
DaysInRange(viewType, date, data) ==
    IF viewType = "month"
    THEN SelectSeq(data, LAMBDA n :
             /\ GetFullYear(ParseDate(n)) = GetFullYear(date)
             /\ GetMonth(ParseDate(n)) = GetMonth(date))
    ELSE IF viewType = "week"
    THEN LET range == GetWeekRange(date)
             endOfWeek == EndOfDay(range.endOfWeek)
         IN SelectSeq(data, LAMBDA n :
                /\ ParseDate(n) >= range.startOfWeek
                /\ ParseDate(n) <= endOfWeek)
    ELSE IF UtcDate(date) \in Range(data) THEN <<UtcDate(date)>> ELSE <<>>

\* reportDataForSelectedEmployee / reportDataForCurrentUser: the summaries
\* of the window (each stands for its date), sorted by date
ReportDataFor(viewType, date, data) == SortByDate(DaysInRange(viewType, date, data))

\* isNextButtonDisabled()
IsNextButtonDisabled ==
    LET today == StartOfDay(now) IN
    IF reportViewType = "day" THEN StartOfDay(reportDate) >= today
    ELSE IF reportViewType = "week" THEN GetWeekRange(reportDate).endOfWeek >= today
    ELSE /\ GetFullYear(reportDate) = GetFullYear(today)
         /\ GetMonth(reportDate) = GetMonth(today)

\* The reference date handleDateChange(offset) sets
DateAfterChange(offset) ==
    IF reportViewType = "day" THEN SetDate(reportDate, GetDate(reportDate) + offset)
    ELSE IF reportViewType = "week" THEN SetDate(reportDate, GetDate(reportDate) + offset * 7)
    ELSE AddMonths(reportDate, offset)

\* The reference days for which every window lies inside the calendar
NavDays == 8..143
CanChangeDate(offset) ==
    /\ reportViewType = "month" => MonthIndex(LocalDay(reportDate)) + offset \in 1..Len(CalendarMonths)
    /\ LocalDay(DateAfterChange(offset)) \in NavDays

TzOffsets == {-5, 0, 2}
ViewTypes == {"day", "week", "month"}

\* Today: Monday 2024-01-08 or Wednesday 2024-01-31
TodayInputs == {68, 91}

\* The time of day: half past midnight, noon, half past eleven at night
MinuteInputs == {30, 720, 1410}

RECURSIVE DaysFromTo(_, _)
DaysFromTo(a, b) == IF a > b THEN <<>> ELSE <<a>> \o DaysFromTo(a + 1, b)

RECURSIVE Reversed(_)
Reversed(q) == IF q = <<>> THEN <<>> ELSE Append(Reversed(Tail(q)), Head(q))

\* The dates of the summaries of the employee, in the iteration order of the
\* map: a run of consecutive days inserted in order or backwards, or a few
\* days inserted as retroactive shifts arrive
EmployeeDataInputs ==
    { DaysFromTo(40, 110), Reversed(DaysFromTo(40, 110)),
      <<68, 61, 91, 60, 67, 92, 74, 73, 62, 90>> }

\* The App component as constructed: reportDate is new Date(), the view is
\* 'month'; the summaries of one employee are given
ReportInit ==
    /\ tzOffset \in TzOffsets
    /\ now \in {MakeLocal(day, minute) : day \in TodayInputs, minute \in MinuteInputs}
    /\ reportDate = now
    /\ reportViewType = "month"
    /\ employeeData \in EmployeeDataInputs
    /\ reportData = ReportDataFor("month", now, employeeData)
    /\ navCount = 0
    /\ posting = NoPosting
    /\ resolved = <<>>
    /\ dLogs = <<>>
    /\ dMethod = "firstLast"
    /\ dStep = "input"
    /\ dCalc = [totalHours |-> 0, pairs |-> <<>>]
    /\ dSummary = [date |-> "", firstIn |-> Null, lastOut |-> Null,
                   totalHours |-> 0, shiftPairs |-> <<>>, logs |-> <<>> ]
    /\ nRows = <<>>
    /\ nDone = FALSE
    /\ nOut = Normalize(<<>>)
    /\ remote = <<HeaderRow>>
    /\ rawLogData = EmptyLogData
    /\ employees = <<>>
    /\ adminPassword = DefaultPassword
    /\ syncStatus = Connecting
    /\ alert = "none"
    /\ isUpdating = FALSE
    /\ fetches = EmptyBag
    /\ writes = EmptyBag
    /\ mounted = FALSE
    /\ ops = 0
    /\ last = "construct"

\* setReportViewType(viewType); the report memo runs again
SetReportViewType(viewType) ==
    /\ viewType # reportViewType
    /\ reportViewType' = viewType
    /\ reportData' = ReportDataFor(viewType, reportDate, employeeData)
    /\ last' = "SetReportViewType"
    /\ UNCHANGED <<reportDate, now, tzOffset, employeeData, navCount>>
    /\ UNCHANGED <<remote, rawLogData, employees, adminPassword, syncStatus,
                   alert, isUpdating, fetches, writes, mounted, ops>>
    /\ UNCHANGED <<normVars, dayVars, recordVars, historyVars>>

\* A click on the previous (offset -1) or next (offset 1) button of the
\* navigator, the next button being disabled when isNextButtonDisabled()
HandleDateChange(offset) ==
    /\ navCount < MaxNav
    /\ offset = 1 => ~IsNextButtonDisabled
    /\ CanChangeDate(offset)
    /\ navCount' = navCount + 1
    /\ reportDate' = DateAfterChange(offset)
    /\ reportData' = ReportDataFor(reportViewType, reportDate', employeeData)
    /\ last' = "HandleDateChange"
    /\ UNCHANGED <<reportViewType, now, tzOffset, employeeData>>
    /\ UNCHANGED <<remote, rawLogData, employees, adminPassword, syncStatus,
                   alert, isUpdating, fetches, writes, mounted, ops>>
    /\ UNCHANGED <<normVars, dayVars, recordVars, historyVars>>

ReportNext ==
    \/ \E viewType \in ViewTypes : SetReportViewType(viewType)
    \/ \E offset \in {-1, 1} : HandleDateChange(offset)

SpecReport == ReportInit /\ [][ReportNext]_vars

----------------------------------------------------------------------------
(* Claims about the report window *)

\* The Sunday on or before a calendar day
WeekStartOf(day) == day - ((day + WeekdayOfDayZero) % 7)

\* C24: in week view the report holds exactly the summaries of the employee
\* dated from the Sunday on or before the local calendar date of the
\* reference date to the Saturday after it, whatever the time of day and the
\* local UTC offset.
C24_WeekWindowExact ==
    reportViewType = "week" =>
        Range(reportData) =
            { n \in Range(employeeData) :
                /\ WeekStartOf(LocalDay(reportDate)) <= n
                /\ n <= WeekStartOf(LocalDay(reportDate)) + 6 }

\* C25: in day view the report holds the summary dated the local calendar
\* date of the reference date when the employee has one, and nothing else,
\* whatever the time of day and the local UTC offset.
C25_DayWindowExact ==
    reportViewType = "day" =>
        reportData = IF LocalDay(reportDate) \in Range(employeeData)
                     THEN <<LocalDay(reportDate)>>
                     ELSE <<>>

\* C26: in month view the report holds exactly the summaries of the employee
\* dated in the calendar year and month of the reference date, the first and
\* the last day of the month included, the days around them excluded.
C26_MonthWindowExact ==
    reportViewType = "month" =>
        Range(reportData) =
            { n \in Range(employeeData) : MonthIndex(n) = MonthIndex(LocalDay(reportDate)) }

\* The days of a report follow one another in strictly ascending date order
IsAscendingByDate(days) == \A i \in 1..(Len(days) - 1) : days[i] < days[i + 1]

\* C27: the report of every view is sorted ascending by date and holds each
\* selected summary once, whatever the order in which the dates were
\* inserted into the map of the employee.
C27_ReportSortedEachOnce ==
    /\ IsAscendingByDate(reportData)
    /\ Range(reportData) = Range(DaysInRange(reportViewType, reportDate, employeeData))
    /\ Len(reportData) = Cardinality(Range(reportData))

\* A whole week is shown from a map whose dates were inserted backwards
C27_Witness ==
    /\ last = "HandleDateChange"
    /\ reportViewType = "week"
    /\ Len(reportData) = 7
    /\ employeeData[1] > employeeData[2]

\* The first instant of the window the report shows
WindowStart ==
    IF reportViewType = "day" THEN MakeLocal(LocalDay(reportDate), 0)
    ELSE IF reportViewType = "week" THEN MakeLocal(WeekStartOf(LocalDay(reportDate)), 0)
    ELSE MakeLocal(CalendarMonths[MonthIndex(LocalDay(reportDate))].first, 0)

\* C28: from a reference date equal to today, through every sequence of view
\* switches and of previous and next navigations, next being taken only
\* while the button is enabled, the window shown never starts after the
\* current moment.
C28_WindowNeverInFuture == WindowStart <= now

----------------------------------------------------------------------------
(* One call of recordToSheet *)

\* toLocaleTimeString('he-IL', {hour12: false}) of an instant
ToLocaleTimeString(at) ==
    CASE at = 0 -> "H0"
      [] at = 1 -> "H1"
      [] at = 2 -> "H2"
      [] OTHER -> "H3"

\* rowData of recordToSheet
RowData(employee, action, timestamp, date, time) ==
    <<employee, action, timestamp, date, time, "PWA">>

\* What response.json() yields for the bodies the script or a proxy can
\* answer with: parses is false when json() rejects, truthy is the truth
\* value of the parsed value, isNull tells null from the other values, ok is
\* the value of its ok property
JsonBodies ==
    { [text |-> "<html>", parses |-> FALSE, truthy |-> FALSE, isNull |-> FALSE, ok |-> "undefined"],
      [text |-> "null", parses |-> TRUE, truthy |-> FALSE, isNull |-> TRUE, ok |-> "undefined"],
      [text |-> "0", parses |-> TRUE, truthy |-> FALSE, isNull |-> FALSE, ok |-> "undefined"],
      [text |-> "{}", parses |-> TRUE, truthy |-> TRUE, isNull |-> FALSE, ok |-> "undefined"],
      [text |-> "{ok:true}", parses |-> TRUE, truthy |-> TRUE, isNull |-> FALSE, ok |-> "true"],
      [text |-> "{ok:false,error:'e'}", parses |-> TRUE, truthy |-> TRUE, isNull |-> FALSE, ok |-> "false"],
      [text |-> "{ok:'true'}", parses |-> TRUE, truthy |-> TRUE, isNull |-> FALSE, ok |-> "'true'"] }

NoBody == [text |-> "", parses |-> FALSE, truthy |-> FALSE, isNull |-> FALSE, ok |-> "undefined"]

\* The ways `await fetch(SCRIPT_URL, ...)` settles: the promise rejects, or
\* it fulfils with a response of some status and body
StatusInputs == {200, 201, 404, 500}
FetchOutcomes ==
    {[rejected |-> TRUE, status |-> 0, body |-> NoBody]}
    \cup {[rejected |-> FALSE, status |-> status, body |-> body] :
             status \in StatusInputs, body \in JsonBodies}

\* Response.ok
ResponseOk(response) == response.status \in 200..299

\* How a block of statements completes
Return(value) == [throws |-> FALSE, value |-> value]
Throw == [throws |-> TRUE, value |-> FALSE]

\* Mutant: every answer that parses counts as a success
BodyOkAnyAnswer(result) == TRUE

\* result && result.ok === true
BodyOk(result) == result.truthy /\ result.ok = "true"

\* The try block of recordToSheet: the awaits throw when their promises
\* reject, and result.error throws when result is null
TryBlock(response) ==
    IF response.rejected THEN Throw
    ELSE IF ~ResponseOk(response) THEN Return(FALSE)
    ELSE IF ~response.body.parses THEN Throw
    ELSE IF BodyOk(response.body) THEN Return(TRUE)
    ELSE IF response.body.isNull THEN Throw
    ELSE Return(FALSE)

\* recordToSheet: the try block, and the catch block returning false
RecordToSheet(response) ==
    IF TryBlock(response).throws THEN Return(FALSE) ELSE TryBlock(response)

\* The arguments handleAction passes
RecordEmployees == {"A", "b", "SYSTEM"}
RecordActions == {"checkin", "checkout", "employee_added", "employee_removed",
                  "admin_password_change"}
RecordInstants == {0, 2}

\* recordToSheet is about to be called with the arguments of one handleAction
RecordInit ==
    /\ posting \in { [stage |-> "called",
                      rowData |-> RowData(employee, action, ToISOString(at), IsoDate(at),
                                          ToLocaleTimeString(at))] :
                      employee \in RecordEmployees, action \in RecordActions,
                      at \in RecordInstants }
    /\ reportDate = 0
    /\ reportViewType = "month"
    /\ now = 0
    /\ tzOffset = 0
    /\ employeeData = <<>>
    /\ reportData = <<>>
    /\ navCount = 0
    /\ dLogs = <<>>
    /\ dMethod = "firstLast"
    /\ dStep = "input"
    /\ dCalc = [totalHours |-> 0, pairs |-> <<>>]
    /\ dSummary = [date |-> "", firstIn |-> Null, lastOut |-> Null,
                   totalHours |-> 0, shiftPairs |-> <<>>, logs |-> <<>> ]
    /\ nRows = <<>>
    /\ nDone = FALSE
    /\ nOut = Normalize(<<>>)
    /\ remote = <<HeaderRow>>
    /\ rawLogData = EmptyLogData
    /\ employees = <<>>
    /\ adminPassword = DefaultPassword
    /\ syncStatus = Connecting
    /\ alert = "none"
    /\ isUpdating = FALSE
    /\ fetches = EmptyBag
    /\ writes = EmptyBag
    /\ mounted = FALSE
    /\ ops = 0
    /\ last = "construct"
    /\ resolved = <<>>

\* recordToSheet runs up to `await fetch(...)`: the row is posted
PostRow ==
    /\ posting.stage = "called"
    /\ posting' = [stage |-> "awaiting", rowData |-> posting.rowData]
    /\ last' = "PostRow"
    /\ UNCHANGED <<remote, rawLogData, employees, adminPassword, syncStatus,
                   alert, isUpdating, fetches, writes, mounted, ops>>
    /\ UNCHANGED <<normVars, dayVars, reportVars, historyVars>>

\* The fetch settles and recordToSheet runs to its end
RecordToSheetSettles(response) ==
    /\ posting.stage = "awaiting"
    /\ posting' = [stage |-> "settled", rowData |-> posting.rowData,
                   response |-> response, completion |-> RecordToSheet(response)]
    /\ last' = "RecordToSheetSettles"
    /\ UNCHANGED <<remote, rawLogData, employees, adminPassword, syncStatus,
                   alert, isUpdating, fetches, writes, mounted, ops>>
    /\ UNCHANGED <<normVars, dayVars, reportVars, historyVars>>

RecordNext ==
    \/ PostRow
    \/ \E response \in FetchOutcomes : RecordToSheetSettles(response)

SpecRecord == RecordInit /\ [][RecordNext]_vars

\* C30: recordToSheet returns true exactly when the response is ok and its
\* JSON body has ok === true; on a response that is not ok, a body whose ok
\* is false or missing, a body that does not parse and a rejected request it
\* returns false, and it never throws.
C30_RecordToSheetResult ==
    posting.stage = "settled" =>
        /\ ~posting.completion.throws
        /\ posting.completion.value =
              (/\ ~posting.response.rejected
               /\ posting.response.status \in 200..299
               /\ posting.response.body.text = "{ok:true}")

\* The script answered 200 with the body null, and the call has returned
C30_Witness ==
    /\ posting.stage = "settled"
    /\ posting.response.status = 200
    /\ posting.response.body.text = "null"
    /\ ~posting.completion.value

----------------------------------------------------------------------------
(* Cancelling a shift *)

\* The attendance events of employee A on one day; "T1b" is a second
\* spelling of the instant of "T1"
CancelLogInputs ==
    { [action |-> "checkin", timestamp |-> "T0"],
      [action |-> "checkout", timestamp |-> "T0"],
      [action |-> "checkin", timestamp |-> "T1"],
      [action |-> "checkout", timestamp |-> "T1"],
      [action |-> "checkout", timestamp |-> "T1b"] }

\* The rows the app has written for them: handleAction stamps every row with
\* the UTC date of its timestamp
CancelRowInputs ==
    { Row(<<"A", log.action, log.timestamp, IsoDate(ParseTime(log.timestamp))>>) :
        log \in CancelLogInputs }

\* The sheets the component has loaded: a header and up to maxRows rows
CancelSheets(maxRows) ==
    {<<HeaderRow>> \o body : body \in SeqsUpTo(CancelRowInputs, maxRows)}

\* The component after loadData has installed the sheet
CancelInit ==
    /\ remote \in CancelSheets(MaxNormRows)
    /\ rawLogData = RefreshedLogData(remote)
    /\ employees = RefreshedEmployees(remote)
    /\ adminPassword = RefreshedPassword(remote)
    /\ syncStatus = Connected
    /\ alert = "none"
    /\ isUpdating = FALSE
    /\ fetches = EmptyBag
    /\ writes = EmptyBag
    /\ mounted = TRUE
    /\ ops = 0
    /\ last = "loaded"
    /\ resolved = <<>>
    /\ nRows = <<>>
    /\ nDone = FALSE
    /\ nOut = Normalize(<<>>)
    /\ dLogs = <<>>
    /\ dMethod = "firstLast"
    /\ dStep = "input"
    /\ dCalc = [totalHours |-> 0, pairs |-> <<>>]
    /\ dSummary = [date |-> "", firstIn |-> Null, lastOut |-> Null,
                   totalHours |-> 0, shiftPairs |-> <<>>, logs |-> <<>>]
    /\ reportDate = 0
    /\ reportViewType = "month"
    /\ now = 0
    /\ tzOffset = 0
    /\ employeeData = <<>>
    /\ reportData = <<>>
    /\ navCount = 0
    /\ posting = NoPosting

\* shiftPairs of the summary the effect derives for group k of the cache
ShiftPairsOf(data, k) == CalculateHoursAndPairs(data[k]).pairs

\* handleCancelShift(pair) for a pair of the report of employee k[1] on day
\* k[2], confirmed: handleAction('checkout', employee, {timestamp:
\* pair.checkin}) up to its await
HandleCancelShift(k, pair) ==
    /\ CanInvoke
    /\ k \in DOMAIN rawLogData
    /\ pair \in Range(ShiftPairsOf(rawLogData, k))
    /\ ops' = ops + 1
    /\ syncStatus' = StatusOnWrite
    /\ writes' = writes (+) One(WriteTask("cancel", k[1], "checkout",
                                          ParseTime(pair.checkin), <<>>))
    /\ UNCHANGED <<remote, rawLogData, employees, adminPassword, alert,
                   isUpdating, fetches, mounted>>
    /\ last' = "HandleCancelShift"
    /\ UNCHANGED <<normVars, dayVars, reportVars, recordVars, historyVars>>

CancelNext ==
    \/ \E k \in DOMAIN rawLogData : \E pair \in Range(ShiftPairsOf(rawLogData, k)) :
          HandleCancelShift(k, pair)
    \/ \E t \in BagToSet(writes) : AbsorbWrite(t)
    \/ \E t \in BagToSet(writes), success \in BOOLEAN : ResolveWrite(t, success)
    \/ \E t \in BagToSet(fetches) : \E rows \in Snapshots(t) : CompleteFetch(t, rows)
    \/ \E t \in BagToSet(fetches) : FailFetch(t)

SpecCancel == CancelInit /\ [][CancelNext]_vars

\* The cancellations whose write succeeded and whose row the cache reflects:
\* the cache is what a refresh installs from a sheet prefix holding the row
ReflectedCancellations ==
    { i \in 1..Len(resolved) :
        /\ resolved[i].caller = "cancel"
        /\ resolved[i].success
        /\ \E n \in resolved[i].pos..Len(remote) :
              rawLogData = RefreshedLogData(SheetPrefix(n)) }

\* C37: after the write of a cancellation has succeeded and a refresh has
\* re-derived the days from a sheet that holds its row, no day of the
\* employee has a shift pair whose check-in is the cancelled instant.
C37_CancelledShiftIsGone ==
    \A i \in ReflectedCancellations :
        \A k \in DOMAIN rawLogData :
            k[1] = resolved[i].name =>
                \A n \in 1..Len(ShiftPairsOf(rawLogData, k)) :
                    ParseTime(ShiftPairsOf(rawLogData, k)[n].checkin) # resolved[i].at

\* C37 witness: the day held a shift from T0 to T1; it was cancelled, the
\* refresh has read the row, and the day has no pair left.
C37_Witness ==
    /\ last = "CompleteFetch"
    /\ ReflectedCancellations # {}
    /\ remote = <<HeaderRow, Row(<<"A", "checkin", "T0", "D1">>),
                  Row(<<"A", "checkout", "T1", "D1">>),
                  Row(<<"A", "checkout", "T0", "D1">>)>>
    /\ ShiftPairsOf(rawLogData, <<"A", "D1">>) = <<>>

====
